---- MODULE Spec2Model ----
(***************************************************************************)
(* A model of the cauldron audio decoding library: the AudioSegment        *)
(* facade (audio.rs), the WAV container reader and its sample iterator     *)
(* (wav/mod.rs, wav/chunks.rs), the FLAC container reader, frame decoder   *)
(* and interleaving sample iterator (flac/mod.rs, flac/frame.rs,           *)
(* flac/decoder.rs) and the byte/bit readers below them (io/read.rs).      *)
(*                                                                         *)
(* An input file is a sequence of bytes (0..255); the reader is the pair   *)
(* (stream, pos).  Every parser is an operator from (stream, pos) to a     *)
(* result record that carries the position after the call.  The MP3       *)
(* reader (mp3/) is not modelled: a segment is a WAV or a FLAC one.        *)
(***************************************************************************)
EXTENDS Integers, Sequences, FiniteSets, TLC

VARIABLES
    stream,           \* the bytes of the input source
    meta,             \* how the input was put together (ghost: never read by the decoder)
    flag,             \* AudioSegment.codec_flag
    pos,              \* bytes of `stream` the reader has consumed
    header,           \* what create_audio_segment got from read_header
    is_buffer_used,   \* AudioSegment.is_buffer_used
    iter,             \* the sample iterator handed out by samples()
    samples_results,  \* the results of the calls of samples(), in order
    out,              \* the results of the calls of next() on the iterator, in order
    call,             \* a call of one function on its own: [fn, args, done, result]
    overflow_checks   \* the build: TRUE when an integer overflow of `+` panics (the
                      \* overflow-checks setting of the profile), FALSE when it wraps

vars ==
    <<stream, meta, flag, pos, header, is_buffer_used, iter, samples_results, out, call,
      overflow_checks>>

-----------------------------------------------------------------------------
(* Arithmetic on machine words.                                            *)

Pow2(n) == IF n <= 0 THEN 1 ELSE 2^n

\* the element of the one-element set S.  A `let x = v;` of the code followed by e(x) is
\* written The({e(x) : x \in {v}}), which evaluates v once
The(S) == CHOOSE x \in S : TRUE

\* bit `i` (0 = least significant) of the non-negative number x
Bit(x, i) == (x \div Pow2(i)) % 2

RECURSIVE BitOp(_, _, _, _)
\* bitwise combination of the low `w` bits of a and b; op is "and", "or" or "xor"
BitOp(op, a, b, w) ==
    IF w = 0 THEN 0
    ELSE (CASE op = "and" -> IF a % 2 = 1 /\ b % 2 = 1 THEN 1 ELSE 0
            [] op = "or"  -> IF a % 2 = 1 \/ b % 2 = 1 THEN 1 ELSE 0
            [] OTHER      -> IF a % 2 # b % 2 THEN 1 ELSE 0)
         + 2 * BitOp(op, a \div 2, b \div 2, w - 1)

RECURSIVE Concat(_)
Concat(ss) == IF ss = <<>> THEN <<>> ELSE Head(ss) \o Concat(Tail(ss))

-----------------------------------------------------------------------------
(* io/read.rs: ReadBuffer over the buffered source.  A read that cannot be *)
(* served in full has consumed what was left of the source.                *)

read_into(s, p, n) ==
    IF p + n <= Len(s)
    THEN [ok |-> TRUE, v |-> SubSeq(s, p + 1, p + n), pos |-> p + n]
    ELSE [ok |-> FALSE, v |-> <<>>, pos |-> Len(s)]

skip_bytes(s, p, n) ==
    IF p + n <= Len(s)
    THEN [ok |-> TRUE, pos |-> p + n]
    ELSE [ok |-> FALSE, pos |-> Len(s)]

\* the number the bytes b (at most four of them) hold, least significant byte first
from_le_bytes(b) ==
    IF b = <<>> THEN 0
    ELSE b[1] + (IF Len(b) >= 2 THEN 256 * b[2] ELSE 0)
              + (IF Len(b) >= 3 THEN 65536 * b[3] ELSE 0)
              + (IF Len(b) >= 4 THEN 16777216 * b[4] ELSE 0)

from_be_bytes(b) == from_le_bytes([i \in 1..Len(b) |-> b[Len(b) + 1 - i]])

\* a number of n bytes read at p; `signed` gives its two's complement reading
ReadNum(s, p, n, le, signed) ==
    IF p + n > Len(s) THEN [ok |-> FALSE, v |-> 0, pos |-> Len(s)]
    ELSE IF signed /\ s[IF le THEN p + n ELSE p + 1] >= 128
    THEN [ok |-> TRUE, pos |-> p + n,
          v |-> (IF le THEN from_le_bytes(SubSeq(s, p + 1, p + n - 1))
                 ELSE from_be_bytes(SubSeq(s, p + 2, p + n)))
                + (s[IF le THEN p + n ELSE p + 1] - 256) * Pow2(8 * (n - 1))]
    ELSE [ok |-> TRUE, pos |-> p + n,
          v |-> IF le THEN from_le_bytes(SubSeq(s, p + 1, p + n))
                ELSE from_be_bytes(SubSeq(s, p + 1, p + n))]

read_u8(s, p) ==
    IF p < Len(s) THEN [ok |-> TRUE, v |-> s[p + 1], pos |-> p + 1]
    ELSE [ok |-> FALSE, v |-> 0, pos |-> Len(s)]
read_le_u16(s, p) == ReadNum(s, p, 2, TRUE, FALSE)
read_be_u16(s, p) == ReadNum(s, p, 2, FALSE, FALSE)
read_be_u24(s, p) == ReadNum(s, p, 3, FALSE, FALSE)
read_le_u32(s, p) == ReadNum(s, p, 4, TRUE, FALSE)
read_be_u32(s, p) == ReadNum(s, p, 4, FALSE, FALSE)

\* read_le_u16().map(|x| x as i16)
read_le_i16(s, p) == ReadNum(s, p, 2, TRUE, TRUE)

\* the 24-bit value with its sign extended into the most significant byte
read_le_i24(s, p) == ReadNum(s, p, 3, TRUE, TRUE)

\* read_le_u32().map(|x| x as i32)
read_le_i32(s, p) == ReadNum(s, p, 4, TRUE, TRUE)

-----------------------------------------------------------------------------
(* audio.rs: Channels (a bit set, here the set of the names of its bits),  *)
(* ChannelLayout and AudioInfo.                                            *)

into_channels(layout) ==
    CASE layout = "Mono" -> {"FRONT_LEFT"}
      [] layout = "Stereo" -> {"FRONT_LEFT", "FRONT_RIGHT"}
      [] layout = "TwoPointOne" -> {"FRONT_LEFT", "FRONT_RIGHT", "LFE1"}
      [] layout = "ThreePointZero" -> {"FRONT_LEFT", "FRONT_RIGHT", "FRONT_CENTRE"}
      [] layout = "Quad" -> {"FRONT_LEFT", "FRONT_RIGHT", "BACK_LEFT", "BACK_RIGHT"}
      [] layout = "FivePointZero" ->
            {"FRONT_LEFT", "FRONT_RIGHT", "FRONT_CENTRE", "BACK_LEFT", "BACK_RIGHT"}
      [] layout = "FivePointOne" ->
            {"FRONT_LEFT", "FRONT_RIGHT", "FRONT_CENTRE", "LFE1", "BACK_LEFT", "BACK_RIGHT"}
      [] layout = "SixPointOne" ->
            {"FRONT_LEFT", "FRONT_RIGHT", "FRONT_CENTRE", "LFE1", "BACK_CENTRE",
             "SIDE_LEFT", "SIDE_RIGHT"}
      [] layout = "SixPointOneBack" ->
            {"FRONT_LEFT", "FRONT_RIGHT", "FRONT_CENTRE", "LFE1", "BACK_CENTRE",
             "BACK_LEFT", "BACK_RIGHT"}
      [] layout = "SevenPointOne" ->
            {"FRONT_LEFT", "FRONT_RIGHT", "FRONT_CENTRE", "LFE1", "BACK_LEFT",
             "BACK_RIGHT", "SIDE_LEFT", "SIDE_RIGHT"}

\* Channels::count: the number of bits set
count(channels) == Cardinality(channels)

NullInfo ==
    [codec_type |-> "CODEC_TYPE_NULL", sample_rate |-> 0, total_samples |-> 0,
     bits_per_sample |-> 0, channels |-> {}, channel_layout |-> "Mono"]

\* Result<AudioInfo> together with the reader's position after the call
Ok(info, p) == [tag |-> "Ok", info |-> info, pos |-> p]
Err(kind, p) == [tag |-> kind, info |-> NullInfo, pos |-> p]

-----------------------------------------------------------------------------
(* wav/chunks.rs: the chunks of a RIFF/WAVE file and the `fmt ` dialects.  *)

TAG_RIFF == <<82, 73, 70, 70>>
TAG_WAVE == <<87, 65, 86, 69>>
TAG_fmt  == <<102, 109, 116, 32>>
TAG_data == <<100, 97, 116, 97>>

WAVE_FORMAT_PCM == 1
WAVE_FORMAT_IEEE_FLOAT == 3
WAVE_FORMAT_ALAW == 6
WAVE_FORMAT_MULAW == 7
WAVE_FORMAT_EXTENSIBLE == 65534

KSDATAFORMAT_SUBTYPE_PCM == <<1, 0, 0, 0, 0, 0, 16, 0, 128, 0, 0, 170, 0, 56, 155, 113>>
KSDATAFORMAT_SUBTYPE_IEEE_FLOAT == <<3, 0, 0, 0, 0, 0, 16, 0, 128, 0, 0, 170, 0, 56, 155, 113>>
KSDATAFORMAT_SUBTYPE_ALAW == <<6, 0, 0, 0, 0, 0, 16, 0, 128, 0, 0, 170, 0, 56, 155, 113>>
KSDATAFORMAT_SUBTYPE_MULAW == <<4, 0, 0, 0, 0, 0, 16, 0, 128, 0, 0, 170, 0, 56, 155, 113>>

\* the SPEAKER_* bit positions of the WAVE channel mask and the Channels bit each sets
SpeakerBits ==
    <<"FRONT_LEFT", "FRONT_RIGHT", "FRONT_CENTRE", "LFE1", "BACK_LEFT", "BACK_RIGHT",
      "FRONT_LEFT_CENTRE", "FRONT_RIGHT_CENTRE", "BACK_CENTRE", "SIDE_LEFT", "SIDE_RIGHT",
      "TOP_CENTRE", "TOP_FRONT_LEFT", "TOP_FRONT_CENTRE", "TOP_FRONT_RIGHT",
      "TOP_BACK_LEFT", "TOP_BACK_CENTRE", "TOP_BACK_RIGHT">>

decode_channel_mask(channel_mask) ==
    {SpeakerBits[i] : i \in {j \in 1..Len(SpeakerBits) : Bit(channel_mask, j - 1) = 1}}

\* the layout of a one- or two-channel dialect, or "" when the count is refused
MonoOrStereo(n_channels) ==
    CASE n_channels = 1 -> "Mono"
      [] n_channels = 2 -> "Stereo"
      [] OTHER -> ""

WithLayout(audio_info, codec, layout) ==
    [audio_info EXCEPT !.codec_type = codec,
                       !.channel_layout = layout,
                       !.channels = into_channels(layout)]

\* `if chunk_len > 16 { reader.skip_bytes(chunk_len - 16)? }`
SkipExtra(s, p, chunk_len) ==
    IF chunk_len > 16 THEN skip_bytes(s, p, chunk_len - 16) ELSE [ok |-> TRUE, pos |-> p]

read_wave_format_pcm(s, p, chunk_len, n_channels, audio_info) ==
    LET sk == SkipExtra(s, p, chunk_len)
        bits == audio_info.bits_per_sample
        codec == CASE bits = 8 -> "CODEC_TYPE_PCM_U8"
                   [] bits = 16 -> "CODEC_TYPE_PCM_S16LE"
                   [] bits = 24 -> "CODEC_TYPE_PCM_S24LE"
                   [] bits = 32 -> "CODEC_TYPE_PCM_S32LE"
                   [] OTHER -> ""
    IN IF ~sk.ok THEN Err("IoError", sk.pos)
       ELSE IF codec = "" THEN Err("ParseError", sk.pos)
       ELSE IF MonoOrStereo(n_channels) = "" THEN Err("ParseError", sk.pos)
       ELSE Ok(WithLayout(audio_info, codec, MonoOrStereo(n_channels)), sk.pos)

read_wave_format_ieee(s, p, chunk_len, n_channels, audio_info) ==
    LET ex == IF chunk_len = 18 THEN read_le_u16(s, p) ELSE [ok |-> TRUE, v |-> 0, pos |-> p]
        bits == audio_info.bits_per_sample
        codec == CASE bits = 32 -> "CODEC_TYPE_PCM_F32LE"
                   [] bits = 64 -> "CODEC_TYPE_PCM_F64LE"
                   [] OTHER -> ""
    IN IF ~ex.ok THEN Err("IoError", ex.pos)
       ELSE IF ex.v # 0 \/ chunk_len > 18 THEN Err("ParseError", ex.pos)
       ELSE IF codec = "" THEN Err("ParseError", ex.pos)
       ELSE IF MonoOrStereo(n_channels) = "" THEN Err("ParseError", ex.pos)
       ELSE Ok(WithLayout(audio_info, codec, MonoOrStereo(n_channels)), ex.pos)

read_wave_format_alaw(s, p, chunk_len, n_channels, audio_info) ==
    LET sk == SkipExtra(s, p, chunk_len)
    IN IF ~sk.ok THEN Err("IoError", sk.pos)
       ELSE IF MonoOrStereo(n_channels) = "" THEN Err("ParseError", sk.pos)
       ELSE Ok(WithLayout(audio_info, "CODEC_TYPE_PCM_ALAW", MonoOrStereo(n_channels)), sk.pos)

read_wave_format_mulaw(s, p, chunk_len, n_channels, audio_info) ==
    LET sk == SkipExtra(s, p, chunk_len)
    IN IF ~sk.ok THEN Err("IoError", sk.pos)
       ELSE IF MonoOrStereo(n_channels) = "" THEN Err("ParseError", sk.pos)
       ELSE Ok(WithLayout(audio_info, "CODEC_TYPE_PCM_MULAW", MonoOrStereo(n_channels)), sk.pos)

\* the layout read_wave_format_ext picks for a channel count
ext_channel_layout(n) ==
    CASE n = 2 -> "Stereo"
      [] n = 3 -> "ThreePointZero"
      [] n = 4 -> "Quad"
      [] n = 6 -> "FivePointOne"
      [] n = 8 -> "SevenPointOne"
      [] OTHER -> "Mono"

\* extra size (2 bytes), valid bits (2), channel mask (4) and sub-format GUID (16); the
\* codec is a CodecType or the way the function ends
read_wave_format_ext(s, p, chunk_len, audio_info) ==
    LET codec_of(guid, bits) ==
            CASE guid = KSDATAFORMAT_SUBTYPE_PCM ->
                    IF bits > 32 THEN "ParseError"
                    ELSE CASE bits = 8 -> "CODEC_TYPE_PCM_U8"
                           [] bits = 16 -> "CODEC_TYPE_PCM_S16LE"
                           [] bits = 24 -> "CODEC_TYPE_PCM_S24LE"
                           [] bits = 32 -> "CODEC_TYPE_PCM_S32LE"
                           [] OTHER -> "panic"   \* unreachable!()
              [] guid = KSDATAFORMAT_SUBTYPE_IEEE_FLOAT ->
                    IF bits = 32 THEN "CODEC_TYPE_PCM_F32LE"
                    ELSE IF bits = 64 THEN "CODEC_TYPE_PCM_F64LE"
                    ELSE "ParseError"
              [] guid = KSDATAFORMAT_SUBTYPE_ALAW -> "CODEC_TYPE_PCM_ALAW"
              [] guid = KSDATAFORMAT_SUBTYPE_MULAW -> "CODEC_TYPE_PCM_MULAW"
              [] OTHER -> "Unsupported"
        format(bits, channels, codec) ==
            IF codec \in {"ParseError", "Unsupported", "panic"} THEN Err(codec, p + 24)
            ELSE Ok([audio_info EXCEPT !.bits_per_sample = bits,
                                       !.codec_type = codec,
                                       !.channels = channels,
                                       !.channel_layout = ext_channel_layout(count(channels))],
                    p + 24)
    IN IF chunk_len < 40 THEN Err("ParseError", p)
       ELSE IF ~read_le_u16(s, p).ok THEN Err("IoError", Len(s))
       ELSE IF read_le_u16(s, p).v # 22 THEN Err("ParseError", p + 2)
       ELSE IF audio_info.bits_per_sample % 8 # 0 THEN Err("ParseError", p + 2)
       ELSE IF ~read_into(s, p + 8, 16).ok THEN Err("IoError", Len(s))
       ELSE format(read_le_u16(s, p + 2).v,
                   decode_channel_mask(read_le_u32(s, p + 4).v),
                   codec_of(read_into(s, p + 8, 16).v, read_le_u16(s, p + 2).v))

\* Some(n) == (a as u32).checked_mul(b), for n and b below 2^31 and a a u16:
\* a product of 2^31 or more differs from every such n (and may overflow u32)
EqCheckedMulU32(n, a, b) ==
    IF a = 0 THEN n = 0
    ELSE b <= 2147483647 \div a /\ n = a * b

\* format tag (2 bytes), channels (2), sample rate (4), bytes per second (4),
\* block align (2) and bits per sample (2), then the dialect's own part
read_fmt_chunk(s, p, chunk_len) ==
    IF chunk_len < 16 THEN Err("ParseError", p)
    ELSE IF p + 16 > Len(s) THEN Err("IoError", Len(s))
    ELSE The({
        IF n_channels = 0 THEN Err("ParseError", p + 16)
        ELSE IF \/ (block_align \div n_channels) * 8 > 65535
                \/ bits_per_sample # (block_align \div n_channels) * 8
                \/ ~EqCheckedMulU32(n_bytes_per_sec, block_align, sample_rate)
             THEN Err("ParseError", p + 16)
        ELSE The({
            CASE format_tag = WAVE_FORMAT_PCM ->
                     read_wave_format_pcm(s, p + 16, chunk_len, n_channels, audio_info)
              [] format_tag = WAVE_FORMAT_IEEE_FLOAT ->
                     read_wave_format_ieee(s, p + 16, chunk_len, n_channels, audio_info)
              [] format_tag = WAVE_FORMAT_ALAW ->
                     read_wave_format_alaw(s, p + 16, chunk_len, n_channels, audio_info)
              [] format_tag = WAVE_FORMAT_MULAW ->
                     read_wave_format_mulaw(s, p + 16, chunk_len, n_channels, audio_info)
              [] format_tag = WAVE_FORMAT_EXTENSIBLE ->
                     read_wave_format_ext(s, p + 16, chunk_len, audio_info)
              [] OTHER -> Err("Unsupported", p + 16)
            : audio_info \in {[NullInfo EXCEPT !.sample_rate = sample_rate,
                                               !.bits_per_sample = bits_per_sample,
                                               !.channels = {"FRONT_LEFT"}]}})
        : format_tag \in {read_le_u16(s, p).v},
          n_channels \in {read_le_u16(s, p + 2).v},
          sample_rate \in {read_le_u32(s, p + 4).v},
          n_bytes_per_sec \in {read_le_u32(s, p + 8).v},
          block_align \in {read_le_u16(s, p + 12).v},
          bits_per_sample \in {read_le_u16(s, p + 14).v}})

\* Result<Option<Chunk>>: tag is "None", "Fmt", "Data", "Unknown" or an error kind
read_next_chunk(s, p) ==
    IF p + 4 > Len(s) THEN [tag |-> "None", info |-> NullInfo, len |-> 0, pos |-> Len(s)]
    ELSE IF p + 8 > Len(s)
    THEN [tag |-> "IoError", info |-> NullInfo, len |-> 0, pos |-> Len(s)]
    ELSE The({
        IF chunk_type = TAG_fmt
        THEN The({[tag |-> IF info.tag = "Ok" THEN "Fmt" ELSE info.tag,
                   info |-> info.info, len |-> len, pos |-> info.pos]
                  : info \in {read_fmt_chunk(s, p + 8, len)}})
        ELSE IF chunk_type = TAG_data
        THEN [tag |-> "Data", info |-> NullInfo, len |-> len, pos |-> p + 8]
        ELSE The({[tag |-> IF sk.ok THEN "Unknown" ELSE "IoError", info |-> NullInfo,
                   len |-> len, pos |-> sk.pos]
                  : sk \in {skip_bytes(s, p + 8, len)}})
        : chunk_type \in {read_into(s, p, 4).v}, len \in {read_le_u32(s, p + 4).v}})

-----------------------------------------------------------------------------
(* wav/mod.rs: WavReader::read_header.                                     *)

RECURSIVE WavChunkLoop(_, _, _, _)
\* the `while let Some(chunk) = read_next_chunk(..)?` loop; has_info is info.is_some()
WavChunkLoop(s, p, has_info, info) ==
    The({
        IF chunk.tag = "None" THEN Err("ParseError", chunk.pos)
        ELSE IF chunk.tag \notin {"Fmt", "Data", "Unknown"} THEN Err(chunk.tag, chunk.pos)
        ELSE IF chunk.tag = "Data" /\ has_info
        THEN IF info.bits_per_sample \div 8 = 0
             THEN Err("panic", chunk.pos)    \* u32 division by zero
             ELSE Ok([info EXCEPT !.total_samples =
                          chunk.len \div (info.bits_per_sample \div 8)], chunk.pos)
        ELSE WavChunkLoop(s, chunk.pos, has_info \/ chunk.tag = "Fmt",
                          IF chunk.tag = "Fmt" THEN chunk.info ELSE info)
        : chunk \in {read_next_chunk(s, p)}})

WavReader_read_header(s, p) ==
    IF ~read_into(s, p, 4).ok THEN Err("IoError", Len(s))
    ELSE IF read_into(s, p, 4).v # TAG_RIFF THEN Err("ParseError", p + 4)
    ELSE IF ~read_into(s, p + 8, 4).ok THEN Err("IoError", Len(s))
    ELSE IF read_into(s, p + 8, 4).v # TAG_WAVE THEN Err("ParseError", p + 12)
    ELSE WavChunkLoop(s, p + 12, FALSE, NullInfo)

-----------------------------------------------------------------------------
(* io/mod.rs: the Sample trait.  A sample value is the record              *)
(* [n, scale, bytes]: the integer n for the integer targets, n divided by  *)
(* `scale` for a float target computed from an integer, and the bytes of   *)
(* the IEEE 754 pattern for a float read by reinterpretation.              *)

SampleTypes == {"u8", "i16", "i32", "f32", "f64"}

IntSample(n) == [n |-> n, scale |-> "1", bytes |-> <<>>]
Scaled(n, scale) == [n |-> n, scale |-> scale, bytes |-> <<>>]
NoSample == [n |-> 0, scale |-> "", bytes |-> <<>>]

\* Result<S> with the reader's position after the call
SampleOk(v, p) == [res |-> "Ok", v |-> v, pos |-> p]
SampleErr(kind, p) == [res |-> kind, v |-> NoSample, pos |-> p]

\* Sample::read_pcm, dispatched on the output type S; `?` turns the failure of a
\* reader call into an IoError
read_pcm(S, s, p, codec) ==
    LET read_as(r, scale) ==
            IF r.ok THEN SampleOk(Scaled(r.v, scale), r.pos) ELSE SampleErr("IoError", r.pos)
        read_bits(r, scale) ==
            IF r.ok THEN SampleOk([n |-> 0, scale |-> scale, bytes |-> r.v], r.pos)
            ELSE SampleErr("IoError", r.pos)
    IN CASE S = "u8" ->
               CASE codec = "CODEC_TYPE_PCM_U8" -> read_as(read_u8(s, p), "1")
                 [] OTHER -> SampleErr("Unsupported", p)
         [] S = "i16" ->
               CASE codec = "CODEC_TYPE_PCM_U8" -> read_as(read_u8(s, p), "1")
                 [] codec = "CODEC_TYPE_PCM_S16LE" -> read_as(read_le_i16(s, p), "1")
                 [] OTHER -> SampleErr("Unsupported", p)
         [] S = "i32" ->
               CASE codec = "CODEC_TYPE_PCM_U8" -> read_as(read_u8(s, p), "1")
                 [] codec = "CODEC_TYPE_PCM_S16LE" -> read_as(read_le_i16(s, p), "1")
                 [] codec = "CODEC_TYPE_PCM_S24LE" -> read_as(read_le_i24(s, p), "1")
                 [] codec = "CODEC_TYPE_PCM_S32LE" -> read_as(read_le_i32(s, p), "1")
                 [] OTHER -> SampleErr("Unsupported", p)
         [] S = "f32" ->
               CASE codec = "CODEC_TYPE_PCM_U8" -> read_as(read_u8(s, p), "255")
                 [] codec = "CODEC_TYPE_PCM_S16LE" -> read_as(read_le_i16(s, p), "2^15")
                 [] codec = "CODEC_TYPE_PCM_S24LE" -> read_as(read_le_i24(s, p), "2^31")
                 [] codec = "CODEC_TYPE_PCM_S32LE" -> read_as(read_le_i32(s, p), "2^31")
                 [] codec = "CODEC_TYPE_PCM_F32LE" -> read_bits(read_into(s, p, 4), "bits")
                 [] OTHER -> SampleErr("Unsupported", p)
         [] S = "f64" ->
               CASE codec = "CODEC_TYPE_PCM_U8" -> read_as(read_u8(s, p), "255")
                 [] codec = "CODEC_TYPE_PCM_S16LE" -> read_as(read_le_i16(s, p), "2^15")
                 [] codec = "CODEC_TYPE_PCM_S24LE" -> read_as(read_le_i24(s, p), "2^31")
                 [] codec = "CODEC_TYPE_PCM_S32LE" -> read_as(read_le_i32(s, p), "2^31")
                 [] codec = "CODEC_TYPE_PCM_F32LE" ->
                        read_bits(read_into(s, p, 4), "bits/f32::MAX")
                 [] codec = "CODEC_TYPE_PCM_F64LE" -> read_bits(read_into(s, p, 8), "bits")
                 [] OTHER -> SampleErr("Unsupported", p)

\* Sample::from_i32, dispatched on the output type S; the position is not used.
\* `value as u8` and `value as i16` keep the low bits of the i32
from_i32(S, value, bits) ==
    LET as_u8(x) == x % 256
        as_i16(x) == IF x % 65536 >= 32768 THEN (x % 65536) - 65536 ELSE x % 65536
    IN CASE S = "u8" ->
               IF bits <= 8 THEN SampleOk(IntSample(as_u8(value)), 0)
               ELSE SampleErr("Unsupported", 0)
         [] S = "i16" ->
               IF bits <= 16 THEN SampleOk(IntSample(as_i16(value)), 0)
               ELSE SampleErr("Unsupported", 0)
         [] S = "i32" -> SampleOk(IntSample(value), 0)
         [] S = "f32" ->
               CASE bits = 16 -> SampleOk(Scaled(value, "2^15"), 0)
                 [] bits = 24 -> SampleOk(Scaled(value, "2^31"), 0)
                 [] bits = 32 -> SampleOk(Scaled(value, "2^31"), 0)
                 [] OTHER -> SampleErr("Unsupported", 0)
         [] S = "f64" ->
               CASE bits = 16 -> SampleOk(Scaled(value, "2^15"), 0)
                 [] bits = 24 -> SampleOk(Scaled(value, "2^31"), 0)
                 [] bits = 32 -> SampleOk(Scaled(value, "2^31"), 0)
                 [] bits = 64 -> SampleOk(Scaled(value, "2^63"), 0)
                 [] OTHER -> SampleErr("Unsupported", 0)

-----------------------------------------------------------------------------
(* io/read.rs: BitStream, a reader of bits with one byte of carry.  Its    *)
(* state is [data, bits_left, pos], pos being the position of the byte     *)
(* reader under it.                                                        *)

NewBitStream(p) == [data |-> 0, bits_left |-> 0, pos |-> p]

\* ((x as u16) << shift) as u8  and  ((x as u32) >> shift) as u8
shift_left(x, shift) == (x * Pow2(shift)) % 256
shift_right(x, shift) == x \div Pow2(shift)

\* 1s in the `bits` most significant bits of a byte
mask_u8(bits) == shift_left(255, 8 - bits)

\* u8::leading_zeros
leading_zeros(x) ==
    CASE x >= 128 -> 0
      [] x >= 64 -> 1
      [] x >= 32 -> 2
      [] x >= 16 -> 3
      [] x >= 8 -> 4
      [] x >= 4 -> 5
      [] x >= 2 -> 6
      [] x >= 1 -> 7
      [] OTHER -> 8

BitOk(v, b) == [ok |-> TRUE, v |-> v, bs |-> b]
BitFail(b, p) == [ok |-> FALSE, v |-> 0, bs |-> [b EXCEPT !.pos = p]]

read_bit(s, b) ==
    IF b.bits_left = 0
    THEN IF ~read_u8(s, b.pos).ok THEN BitFail(b, Len(s))
         ELSE BitOk(BitOp("and", read_u8(s, b.pos).v, 128, 8) # 0,
                    [data |-> (read_u8(s, b.pos).v * 2) % 256, bits_left |-> 7,
                     pos |-> b.pos + 1])
    ELSE BitOk(BitOp("and", b.data, 128, 8) # 0,
               [b EXCEPT !.data = (b.data * 2) % 256, !.bits_left = b.bits_left - 1])

\* msb is the carry, lsb the top bits of the fresh byte moved below the carry's bits
read_len_u8(s, b, bits) ==
    IF b.bits_left < bits
    THEN IF ~read_u8(s, b.pos).ok THEN BitFail(b, Len(s))
         ELSE BitOk(shift_right(
                        BitOp("or", b.data,
                              shift_right(BitOp("and", read_u8(s, b.pos).v,
                                                mask_u8(bits - b.bits_left), 8),
                                          b.bits_left), 8),
                        8 - bits),
                    [data |-> shift_left(read_u8(s, b.pos).v, bits - b.bits_left),
                     bits_left |-> 8 - (bits - b.bits_left),
                     pos |-> b.pos + 1])
    ELSE BitOk(shift_right(BitOp("and", b.data, mask_u8(bits), 8), 8 - bits),
               [b EXCEPT !.data = (b.data * Pow2(bits)) % 256,
                         !.bits_left = b.bits_left - bits])

\* read_len_u16 putting the second part read above the first
read_len_u16_low_first(s, b, bits) ==
    IF bits <= 8 THEN read_len_u8(s, b, bits)
    ELSE The({
        IF ~msb.ok THEN msb
        ELSE The({
            IF ~lsb.ok THEN lsb
            ELSE BitOk(BitOp("or", (lsb.v * 256) % 65536, msb.v, 16), lsb.bs)
            : lsb \in {read_len_u8(s, msb.bs, bits - 8)}})
        : msb \in {read_len_u8(s, b, 8)}})

\* the eight most significant bits, then the rest: (msb << (bits - 8)) | lsb
read_len_u16(s, b, bits) ==
    IF bits <= 8 THEN read_len_u8(s, b, bits)
    ELSE The({
        IF ~msb.ok THEN msb
        ELSE The({
            IF ~lsb.ok THEN lsb
            ELSE BitOk(BitOp("or", (msb.v * Pow2(bits - 8)) % 65536, lsb.v, 16), lsb.bs)
            : lsb \in {read_len_u8(s, msb.bs, bits - 8)}})
        : msb \in {read_len_u8(s, b, 8)}})

\* the sixteen most significant bits, then the rest (the values used here stay below 2^31)
read_len_u32(s, b, bits) ==
    IF bits <= 16 THEN read_len_u16(s, b, bits)
    ELSE The({
        IF ~msb.ok THEN msb
        ELSE The({
            IF ~lsb.ok THEN lsb ELSE BitOk(msb.v * Pow2(bits - 16) + lsb.v, lsb.bs)
            : lsb \in {read_len_u16(s, msb.bs, bits - 16)}})
        : msb \in {read_len_u16(s, b, 16)}})

RECURSIVE ReadUnaryLoop(_, _, _)
\* the `loop` of read_unary: whole bytes until one holds a 1; n zeros are counted so far
ReadUnaryLoop(s, b, n) ==
    IF ~read_u8(s, b.pos).ok THEN BitFail(b, Len(s))
    ELSE The({
        IF zeros < 8
        THEN BitOk(n + zeros,
                   [data |-> IF zeros = 7 THEN 0 ELSE (fresh_byte * Pow2(zeros + 1)) % 256,
                    bits_left |-> 8 - (zeros + 1),
                    pos |-> b.pos + 1])
        ELSE ReadUnaryLoop(s, [b EXCEPT !.pos = b.pos + 1], n + zeros)
        : fresh_byte \in {read_u8(s, b.pos).v},
          zeros \in {leading_zeros(read_u8(s, b.pos).v)}})

read_unary(s, b) ==
    IF leading_zeros(b.data) < b.bits_left
    THEN BitOk(leading_zeros(b.data),
               [b EXCEPT !.data = (b.data * Pow2(leading_zeros(b.data) + 1)) % 256,
                         !.bits_left = b.bits_left - (leading_zeros(b.data) + 1)])
    ELSE ReadUnaryLoop(s, b, b.bits_left)

\* skip_len_u8 that leaves the fresh byte in `data` as it was read
skip_len_u8_unshifted(s, b, bits) ==
    IF b.bits_left < bits
    THEN IF ~read_u8(s, b.pos).ok THEN BitFail(b, Len(s))
         ELSE BitOk(0, [data |-> read_u8(s, b.pos).v,
                        bits_left |-> 8 - (bits - b.bits_left),
                        pos |-> b.pos + 1])
    ELSE BitOk(0, [b EXCEPT !.data = (b.data * Pow2(bits)) % 256,
                            !.bits_left = b.bits_left - bits])

\* the value of Ok(()) is written 0
skip_len_u8(s, b, bits) ==
    IF b.bits_left < bits
    THEN IF ~read_u8(s, b.pos).ok THEN BitFail(b, Len(s))
         ELSE BitOk(0, [data |-> shift_left(read_u8(s, b.pos).v, bits - b.bits_left),
                        bits_left |-> 8 - (bits - b.bits_left),
                        pos |-> b.pos + 1])
    ELSE BitOk(0, [b EXCEPT !.data = (b.data * Pow2(bits)) % 256,
                            !.bits_left = b.bits_left - bits])

is_aligned(b) == b.bits_left = 0

-----------------------------------------------------------------------------
(* The CRC readers (crate::crc): transparent wrappers that keep a running  *)
(* CRC of every byte read through them.  CRC-8: polynomial 0x07, CRC-16:   *)
(* polynomial 0x8005, both from 0, not reflected, no final xor.            *)

RECURSIVE CrcShift(_, _, _, _)
\* `n` steps of the shift register whose top bit is `top`, with the polynomial poly
CrcShift(crc, n, top, poly) ==
    IF n = 0 THEN crc
    ELSE IF crc >= top
         THEN CrcShift(BitOp("xor", (crc * 2) % (2 * top), poly, 16), n - 1, top, poly)
         ELSE CrcShift(crc * 2, n - 1, top, poly)

\* the register after one more byte
Crc8Update(crc, byte) == CrcShift(BitOp("xor", crc, byte, 8), 8, 128, 7)
Crc16Update(crc, byte) == CrcShift(BitOp("xor", crc, byte * 256, 16), 8, 32768, 32773)

RECURSIVE Crc8(_, _)
\* the CRC-8 of `bytes`, the register starting from crc: the first half, then the rest
Crc8(crc, bytes) ==
    IF bytes = <<>> THEN crc
    ELSE IF Len(bytes) = 1 THEN Crc8Update(crc, bytes[1])
    ELSE LET half == Len(bytes) \div 2
             first == Crc8(crc, SubSeq(bytes, 1, half))
         IN CASE first \in 0..255 -> Crc8(first, SubSeq(bytes, half + 1, Len(bytes)))

RECURSIVE Crc16(_, _)
\* the CRC-16 of `bytes`, the register starting from crc: the first half, then the rest
Crc16(crc, bytes) ==
    IF bytes = <<>> THEN crc
    ELSE IF Len(bytes) = 1 THEN Crc16Update(crc, bytes[1])
    ELSE LET half == Len(bytes) \div 2
             first == Crc16(crc, SubSeq(bytes, 1, half))
         IN CASE first \in 0..65535 -> Crc16(first, SubSeq(bytes, half + 1, Len(bytes)))

\* the bytes consumed after the sync code: the CRC readers set up once it was read
ConsumedAfterSync(s, p, q) == SubSeq(s, p + 3, q)

\* the bytes the reader consumed between the positions p and q
Consumed(s, p, q) == SubSeq(s, p + 1, q)

-----------------------------------------------------------------------------
(* flac/mod.rs: FlacReader::read_header and read_stream_info.              *)

TAG_fLaC == <<102, 76, 97, 67>>

num_channels_to_channel_layout(channels) ==
    CASE channels = 1 -> "Mono"
      [] channels = 2 -> "Stereo"
      [] channels = 3 -> "ThreePointZero"
      [] channels = 4 -> "Quad"
      [] channels = 5 -> "FivePointZero"
      [] channels = 6 -> "FivePointOne"
      [] channels = 7 -> "SixPointOneBack"
      [] channels = 8 -> "SevenPointOne"

\* block sizes (2 + 2 bytes), frame sizes (3 + 3), sample rate, channels and bits per
\* sample (20 + 3 + 5 bits), total (36 bits), MD5 (16 bytes)
read_stream_info(s, p, length) ==
    LET rate(sample_rate, no_channels, sample_rate_lsb) ==
            IF sample_rate = 0 \/ sample_rate > 655350 THEN Err("ParseError", p + 13)
            ELSE IF ~(no_channels >= 1 /\ no_channels <= 8) THEN Err("ParseError", p + 13)
            ELSE IF p + 34 > Len(s) THEN Err("IoError", Len(s))
            ELSE Ok([codec_type |-> "CODEC_TYPE_FLAC",
                     sample_rate |-> sample_rate,
                     total_samples |->
                         (IF read_u8(s, p + 13).v % 16 = 0 THEN read_be_u32(s, p + 14).v
                          ELSE (read_u8(s, p + 13).v % 16) * Pow2(32)
                               + read_be_u32(s, p + 14).v)
                         * no_channels,
                     bits_per_sample |->
                         ((sample_rate_lsb % 2) * 16 + read_u8(s, p + 13).v \div 16) + 1,
                     channels |-> into_channels(num_channels_to_channel_layout(no_channels)),
                     channel_layout |-> num_channels_to_channel_layout(no_channels)],
                    p + 34)
    IN IF length # 34 THEN Err("ParseError", p)
       ELSE IF p + 4 > Len(s) THEN Err("IoError", Len(s))
       ELSE IF read_be_u16(s, p).v < 16 THEN Err("ParseError", p + 4)
       ELSE IF read_be_u16(s, p).v > read_be_u16(s, p + 2).v THEN Err("ParseError", p + 4)
       ELSE IF p + 10 > Len(s) THEN Err("IoError", Len(s))
       ELSE IF /\ read_be_u24(s, p + 4).v > 0
               /\ read_be_u24(s, p + 7).v > 0
               /\ read_be_u24(s, p + 7).v < read_be_u24(s, p + 4).v
            THEN Err("ParseError", p + 10)
       ELSE IF p + 13 > Len(s) THEN Err("IoError", Len(s))
       ELSE rate(read_be_u16(s, p + 10).v * 16 + read_u8(s, p + 12).v \div 16,
                 ((read_u8(s, p + 12).v \div 2) % 8) + 1, read_u8(s, p + 12).v)

RECURSIVE FlacMetadataLoop(_, _, _)
\* the `while !is_last` loop; info is the Result<AudioInfo> assigned so far.  A block
\* that is neither stream info nor invalid is skipped and leaves info as it was
FlacMetadataLoop(s, p, info) ==
    IF p + 4 > Len(s) THEN Err("IoError", Len(s))
    ELSE The({
        The({
            IF next.tag = "return IoError" THEN Err("IoError", next.pos)
            ELSE IF is_last THEN next
            ELSE FlacMetadataLoop(s, next.pos, next)
            : next \in
                {CASE block_type = 0 -> read_stream_info(s, p + 4, metadata_length)
                   [] block_type = 127 -> Err("ParseError", p + 4)
                   [] skip_bytes(s, p + 4, metadata_length).ok ->
                          [info EXCEPT !.pos = p + 4 + metadata_length]
                   [] OTHER -> [tag |-> "return IoError", info |-> NullInfo,
                                pos |-> Len(s)]}})
        : block_type \in {read_u8(s, p).v % 128},
          is_last \in {read_u8(s, p).v \div 128 = 1},
          metadata_length \in {read_be_u24(s, p + 1).v}})

FlacReader_read_header(s, p) ==
    IF ~read_into(s, p, 4).ok THEN Err("IoError", Len(s))
    ELSE IF read_into(s, p, 4).v # TAG_fLaC THEN Err("ParseError", p + 4)
    ELSE FlacMetadataLoop(s, p + 4, Err("ParseError", p + 4))

-----------------------------------------------------------------------------
(* flac/frame.rs: the frame header.                                        *)

NumOk(v, p) == [tag |-> "Ok", v |-> v, pos |-> p]
NumErr(kind, p) == [tag |-> kind, v |-> 0, pos |-> p]

\* (x as u64) << shift, which is 0 for x = 0 whatever the shift
ShlU64(x, shift) == IF x = 0 THEN 0 ELSE x * Pow2(shift)

RECURSIVE ReadContinuation(_, _, _, _)
\* the `for i in (0..read_extra).rev()` loop: i counts down from read_extra - 1
ReadContinuation(s, p, i, result) ==
    IF i < 0 THEN NumOk(result, p)
    ELSE IF ~read_u8(s, p).ok THEN NumErr("IoError", Len(s))
    ELSE IF read_u8(s, p).v \div 64 # 2 THEN NumErr("ParseError", p + 1)
    ELSE ReadContinuation(s, p + 1, i - 1,
                          result + ShlU64(read_u8(s, p).v % 64, 6 * i))

\* `ones` is the number of leading 1 bits of the first byte: the iterations of
\* `while first & mask_mark != 0`
read_utf8_coded_int(s, p) ==
    IF ~read_u8(s, p).ok THEN NumErr("IoError", Len(s))
    ELSE The({
        IF ones = 1 THEN NumErr("ParseError", p + 1)
        ELSE ReadContinuation(s, p + 1, (IF ones > 0 THEN ones - 1 ELSE 0) - 1,
                              ShlU64(BitOp("and", first, 127 \div Pow2(ones), 8),
                                     6 * (IF ones > 0 THEN ones - 1 ELSE 0)))
        : first \in {read_u8(s, p).v}, ones \in {leading_zeros(255 - read_u8(s, p).v)}})

NullFrameHeader ==
    [block_type |-> "FrameNumber", number |-> 0, block_size |-> 0, sample_rate |-> 0,
     channel_type |-> "Independent", n |-> 0, bits_per_sample |-> 0]

HdrErr(kind, p) == [tag |-> kind, h |-> NullFrameHeader, pos |-> p]

\* the block size of a 4-bit code that is not deferred to the end of the header
block_size_of(code) ==
    CASE code = 1 -> 192
      [] code >= 2 /\ code <= 5 -> 576 * Pow2(code - 2)
      [] code = 6 \/ code = 7 -> 0
      [] OTHER -> 256 * Pow2(code - 8)

\* the sample rate of a 4-bit code that is not deferred to the end of the header
sample_rate_of(code, audio_info) ==
    CASE code = 0 -> audio_info.sample_rate
      [] code = 1 -> 88200
      [] code = 2 -> 176400
      [] code = 3 -> 192000
      [] code = 4 -> 8000
      [] code = 5 -> 16000
      [] code = 6 -> 22050
      [] code = 7 -> 24000
      [] code = 8 -> 32000
      [] code = 9 -> 44100
      [] code = 10 -> 48000
      [] code = 11 -> 96000
      [] OTHER -> 0

\* the bits per sample of a 3-bit code, 0 for the reserved codes
bps_of(code, audio_info) ==
    CASE code = 0 -> audio_info.bits_per_sample
      [] code = 1 -> 8
      [] code = 2 -> 12
      [] code = 4 -> 16
      [] code = 5 -> 20
      [] code = 6 -> 24
      [] OTHER -> 0

channel_type_of(code) ==
    CASE code < 8 -> "Independent"
      [] code = 8 -> "LeftSideStereo"
      [] code = 9 -> "RightSideStereo"
      [] code = 10 -> "MidSideStereo"
      [] OTHER -> ""

\* `start` is where the frame (its sync code) began: the CRC-8 covers the bytes read
\* through the Crc8Reader since then.  bs_bytes and sr_bytes are the bytes the block
\* size and the sample rate take at the end of the header (read_bs_last, read_sr_last)
read_frame_header(s, p, audio_info, sync_code, start) ==
    LET read_last(q, n) ==
            CASE n = 0 -> [ok |-> TRUE, v |-> 0, pos |-> q]
              [] n = 1 -> read_u8(s, q)
              [] OTHER -> read_be_u16(s, q)
        bs_bytes(bs_code) == IF bs_code = 6 THEN 1 ELSE IF bs_code = 7 THEN 2 ELSE 0
        sr_bytes(sr_code) == IF sr_code >= 12 /\ sr_code <= 14 THEN sr_code - 11 ELSE 0
    IN
    IF (sync_code \div 4) * 4 # 65528 THEN HdrErr("ParseError", p)
    ELSE IF (sync_code \div 2) % 2 # 0 THEN HdrErr("Unsupported", p)
    ELSE IF ~read_u8(s, p).ok THEN HdrErr("IoError", Len(s))
    ELSE The({
        IF bs_code = 0 THEN HdrErr("Unsupported", p + 1)
        ELSE IF sr_code = 15 THEN HdrErr("ParseError", p + 1)
        ELSE IF p + 2 > Len(s) THEN HdrErr("IoError", Len(s))
        ELSE IF channel_type_of(ch_code) = "" THEN HdrErr("Unsupported", p + 2)
        ELSE IF bps_code \notin {0, 1, 2, 4, 5, 6} THEN HdrErr("Unsupported", p + 2)
        ELSE IF reserved # 0 THEN HdrErr("Unsupported", p + 2)
        ELSE The({
            IF number.tag # "Ok" THEN HdrErr(number.tag, number.pos)
            ELSE The({
                IF ~bs_last.ok THEN HdrErr("IoError", bs_last.pos)
                ELSE IF bs_bytes(bs_code) = 2 /\ bs_last.v = 65535 /\ overflow_checks
                     THEN HdrErr("panic", bs_last.pos)     \* u16 overflow of `+ 1`
                ELSE The({
                    IF ~sr_last.ok THEN HdrErr("IoError", sr_last.pos)
                    ELSE IF ~read_u8(s, sr_last.pos).ok THEN HdrErr("IoError", Len(s))
                    ELSE IF Crc8(0, Consumed(s, start, sr_last.pos))
                                # read_u8(s, sr_last.pos).v
                         THEN HdrErr("ParseError", sr_last.pos + 1)
                    ELSE [tag |-> "Ok",
                          h |-> [block_type |-> IF sync_code % 2 = 0 THEN "FrameNumber"
                                                ELSE "SampleNumber",
                                 number |-> number.v,
                                 block_size |-> IF bs_bytes(bs_code) > 0
                                                THEN (bs_last.v + 1) % 65536
                                                ELSE block_size_of(bs_code),
                                 sample_rate |->
                                     CASE sr_bytes(sr_code) = 0 ->
                                              sample_rate_of(sr_code, audio_info)
                                       [] sr_bytes(sr_code) = 3 -> sr_last.v * 10
                                       [] OTHER -> sr_last.v,
                                 channel_type |-> channel_type_of(ch_code),
                                 n |-> IF ch_code < 8 THEN ch_code + 1 ELSE 2,
                                 bits_per_sample |-> bps_of(bps_code, audio_info)],
                          pos |-> sr_last.pos + 1]
                    : sr_last \in {read_last(bs_last.pos, IF sr_bytes(sr_code) = 3 THEN 2
                                                          ELSE sr_bytes(sr_code))}})
                : bs_last \in {read_last(number.pos, bs_bytes(bs_code))}})
            : number \in {read_utf8_coded_int(s, p + 2)}})
        : bs_code \in {read_u8(s, p).v \div 16},
          sr_code \in {read_u8(s, p).v % 16},
          ch_code \in {read_u8(s, p + 1).v \div 16},
          bps_code \in {(read_u8(s, p + 1).v % 16) \div 2},
          reserved \in {read_u8(s, p + 1).v % 2}})

-----------------------------------------------------------------------------
(* flac/decoder.rs: the subframe decoders.  A decoder returns the samples  *)
(* it wrote into its slice of the block buffer, as [tag, buf, bs].         *)

DecOk(buf, b) == [tag |-> "Ok", buf |-> buf, bs |-> b]
DecErr(kind, b) == [tag |-> kind, buf |-> <<>>, bs |-> b]

\* ((val << (32 - bits)) as i32) >> (32 - bits), for 1 <= bits <= 31
extend_sign_u32(val, bits) ==
    IF val % Pow2(bits) >= Pow2(bits - 1) THEN (val % Pow2(bits)) - Pow2(bits)
    ELSE val % Pow2(bits)

\* ((val << (16 - bits)) as i16) >> (16 - bits), for 1 <= bits <= 16
extend_sign_u16(val, bits) ==
    IF val % Pow2(bits) >= Pow2(bits - 1) THEN (val % Pow2(bits)) - Pow2(bits)
    ELSE val % Pow2(bits)

\* rice_to_signed reading the low bit as the sign of a sign-and-magnitude value
rice_to_signed_sign_magnitude(val) == IF val % 2 = 1 THEN -(val \div 2) ELSE val \div 2

\* (val >> 1) ^ (((val << 31) as i32) >> 31): the complement of val >> 1 for an odd val
rice_to_signed(val) == IF val % 2 = 1 THEN (-1) - (val \div 2) ELSE val \div 2

\* a + b wrapped into the i32 range
AddI32(a, b) ==
    IF a > 0 /\ b > 2147483647 - a
    THEN (a - 2147483647 - 1) + (b - 2147483647 - 1)
    ELSE IF a < 0 /\ b < (-2147483647 - 1) - a
    THEN (a + 2147483647 + 1) + (b + 2147483647 + 1)
    ELSE a + b

\* x / 2^shift, which rounds towards zero, in the place of x >> shift
SarTowardsZero(x, shift) == IF x >= 0 THEN x \div Pow2(shift) ELSE -((-x) \div Pow2(shift))

\* x >> shift on a signed value: the floor of x / 2^shift
Sar(x, shift) == IF x >= 0 THEN x \div Pow2(shift) ELSE (-1) - (((-1) - x) \div Pow2(shift))

RECURSIVE ReadSamples(_, _, _, _, _)
\* the loop of decode_verbatim: n more samples of fr_bps bits appended to acc
ReadSamples(s, b, fr_bps, n, acc) ==
    IF n = 0 THEN DecOk(acc, b)
    ELSE IF fr_bps = 0 /\ overflow_checks
         THEN DecErr("panic", b)     \* extend_sign_u32 shifts by 32
    ELSE The({
        IF ~r.ok THEN DecErr("IoError", r.bs)
        ELSE ReadSamples(s, r.bs, fr_bps, n - 1,
                         Append(acc, IF fr_bps = 0 THEN r.v     \* the shift by 32 wraps to 0
                                     ELSE extend_sign_u32(r.v, fr_bps)))
        : r \in {read_len_u32(s, b, fr_bps)}})

\* one sample is read and every sample of the subframe is it
decode_constant(s, b, fr_bps, len) ==
    The({IF r.tag # "Ok" THEN r ELSE DecOk([i \in 1..len |-> r.buf[1]], r.bs)
         : r \in {ReadSamples(s, b, fr_bps, 1, <<>>)}})

decode_verbatim(s, b, fr_bps, len) == ReadSamples(s, b, fr_bps, len, <<>>)

RECURSIVE RiceSamples(_, _, _, _, _)
\* the rice coded samples of one partition: for each the unary quotient q, then the low
\* rice_param bits, read by the reader of their width
RiceSamples(s, b, rice_param, n, acc) ==
    IF n = 0 THEN DecOk(acc, b)
    ELSE The({
        IF ~q.ok THEN DecErr("IoError", q.bs)
        ELSE The({
            IF ~r.ok THEN DecErr("IoError", r.bs)
            ELSE RiceSamples(s, r.bs, rice_param, n - 1,
                             Append(acc, rice_to_signed(q.v * Pow2(rice_param) + r.v)))
            : r \in {IF rice_param <= 8 THEN read_len_u8(s, q.bs, rice_param)
                     ELSE IF rice_param <= 16 THEN read_len_u16(s, q.bs, rice_param)
                     ELSE read_len_u32(s, q.bs, rice_param)}})
        : q \in {read_unary(s, b)}})

\* a partition is rice coded, or binary coded with a width of five bits read first
decode_rice_partition(s, b, rice_param, escape_param, len) ==
    IF rice_param < escape_param THEN RiceSamples(s, b, rice_param, len, <<>>)
    ELSE The({
        IF ~residual_bits.ok THEN DecErr("IoError", residual_bits.bs)
        ELSE ReadSamples(s, residual_bits.bs, residual_bits.v, len, <<>>)
        : residual_bits \in {read_len_u8(s, b, 5)}})

RECURSIVE ResidualPartitions(_, _, _, _, _, _, _)
\* the `for _ in 0..num_partitions` loop of decode_residual: the rice parameter of the
\* partition, then its samples
ResidualPartitions(s, b, param_width, left, len, per_partition, acc) ==
    IF left = 0 THEN DecOk(acc, b)
    ELSE The({
        IF ~rice_param.ok THEN DecErr("IoError", rice_param.bs)
        ELSE The({
            IF part.tag # "Ok" THEN part
            ELSE ResidualPartitions(s, part.bs, param_width, left - 1, per_partition,
                                    per_partition, acc \o part.buf)
            : part \in {decode_rice_partition(s, rice_param.bs, rice_param.v,
                                              Pow2(param_width) - 1, len)}})
        : rice_param \in {read_len_u8(s, b, param_width)}})

\* block_size is the length of the subframe, len the length of buffer[order..]; the
\* coding method (2 bits) and the partition order (4 bits) come first
decode_residual(s, b, block_size, len) ==
    The({
        IF ~method.ok THEN DecErr("IoError", method.bs)
        ELSE IF method.v > 1 THEN DecErr("Unsupported", method.bs)
        ELSE The({
            IF ~partition_order.ok THEN DecErr("IoError", partition_order.bs)
            ELSE IF block_size % Pow2(partition_order.v) # 0
                 THEN DecErr("ParseError", partition_order.bs)
            ELSE IF block_size - len > block_size \div Pow2(partition_order.v)
                 THEN DecErr("ParseError", partition_order.bs)
            ELSE ResidualPartitions(s, partition_order.bs, IF method.v = 0 THEN 4 ELSE 5,
                                    Pow2(partition_order.v),
                                    block_size \div Pow2(partition_order.v)
                                        - (block_size - len),
                                    block_size \div Pow2(partition_order.v), <<>>)
            : partition_order \in {read_len_u8(s, method.bs, 4)}})
        : method \in {read_len_u8(s, b, 2)}})

\* a + b of two i32 is outside the i32 range
OverflowsI32(a, b) ==
    \/ a > 0 /\ b > 2147483647 - a
    \/ a < 0 /\ b < (-2147483647 - 1) - a

RECURSIVE ScaleI32Magnitude(_, _)
\* ScaleI32 with the sign of the constant lost
ScaleI32Magnitude(k, x) ==
    IF k = 0 THEN 0
    ELSE AddI32(x, ScaleI32Magnitude((IF k < 0 THEN -k ELSE k) - 1, x))

RECURSIVE ScaleI32(_, _)
\* (Wrapping(k) * Wrapping(i64::from(x))).0 as i32 for a small constant k: the product
\* has no overflow in i64, and its truncation is the sum of |k| terms wrapped into i32
ScaleI32(k, x) ==
    IF k = 0 THEN 0
    ELSE IF k < 0 THEN ScaleI32(-k, IF x = -2147483647 - 1 THEN x ELSE -x)
    ELSE AddI32(x, ScaleI32(k - 1, x))

RECURSIVE FixedPredictFrom(_, _, _)
\* `buffer[i] += prediction` for the sample i (1-based) and those after it, the prediction
\* being the fixed polynomial of the order truncated to i32; `+=` is the checked addition
\* of i32, which panics on overflow in a build with overflow checks and wraps in others
FixedPredictFrom(order, buf, i) ==
    LET prediction ==
            CASE order = 1 -> buf[i - 1]
              [] order = 2 -> AddI32(ScaleI32(-1, buf[i - 2]), ScaleI32(2, buf[i - 1]))
              [] order = 3 -> AddI32(AddI32(ScaleI32(1, buf[i - 3]), ScaleI32(-3, buf[i - 2])),
                                     ScaleI32(3, buf[i - 1]))
              [] order = 4 -> AddI32(AddI32(AddI32(ScaleI32(-1, buf[i - 4]),
                                                   ScaleI32(4, buf[i - 3])),
                                            ScaleI32(-6, buf[i - 2])),
                                     ScaleI32(4, buf[i - 1]))
    IN IF i > Len(buf) THEN [tag |-> "Ok", buf |-> buf]
       ELSE IF overflow_checks /\ OverflowsI32(buf[i], prediction)
       THEN [tag |-> "panic", buf |-> buf]
       ELSE FixedPredictFrom(order, [buf EXCEPT ![i] = AddI32(buf[i], prediction)], i + 1)

\* Result<()> and the buffer as the call left it
fixed_predict(order, buf) ==
    IF order = 0 THEN [tag |-> "Ok", buf |-> buf]
    ELSE IF order > 4 THEN [tag |-> "panic", buf |-> buf]    \* unreachable!()
    ELSE FixedPredictFrom(order, buf, order + 1)

\* the warm-up samples, the residual, then the prediction over both
decode_fixed_linear(s, b, fr_bps, order, len) ==
    IF len < order THEN DecErr("ParseError", b)
    ELSE The({
        IF warm.tag # "Ok" THEN warm
        ELSE The({
            IF res.tag # "Ok" THEN res
            ELSE The({
                IF predicted.tag # "Ok" THEN DecErr(predicted.tag, res.bs)
                ELSE DecOk(predicted.buf, res.bs)
                : predicted \in {fixed_predict(order, warm.buf \o res.buf)}})
            : res \in {decode_residual(s, warm.bs, len, len - order)}})
        : warm \in {decode_verbatim(s, b, fr_bps, order)}})

RECURSIVE InnerProductReversed(_, _, _, _)
\* the inner product with the coefficients taken last first
InnerProductReversed(coefficients, buf, from, n) ==
    IF n = 0 THEN 0
    ELSE coefficients[Len(coefficients) + 1 - n] * buf[from + n - 1]
             + InnerProductReversed(coefficients, buf, from, n - 1)

RECURSIVE InnerProduct(_, _, _, _)
\* sum of coefficients[k] * buf[from + k - 1] for k in 1..n
InnerProduct(coefficients, buf, from, n) ==
    IF n = 0 THEN 0
    ELSE coefficients[n] * buf[from + n - 1] + InnerProduct(coefficients, buf, from, n - 1)

RECURSIVE PredictLpcFrom(_, _, _, _, _)
\* buffer[i] = ((inner product of the last `order` samples) >> qlp_shift) + buffer[i], i 1-based
PredictLpcFrom(coefficients, qlp_shift, buf, i, last) ==
    IF i > last THEN buf
    ELSE PredictLpcFrom(coefficients, qlp_shift,
             [buf EXCEPT ![i] =
                  AddI32(Sar(InnerProduct(coefficients, buf, i - Len(coefficients),
                                          Len(coefficients)), qlp_shift), buf[i])],
             i + 1, last)

predict_lpc_high_order(coefficients, qlp_shift, buf) ==
    PredictLpcFrom(coefficients, qlp_shift, buf, Len(coefficients) + 1, Len(buf))

\* first the samples up to the twelfth, then inner products of twelve samples with the
\* coefficients padded with zeros in front
predict_lpc_low_order(raw_coefficients, qlp_shift, buf) ==
    The({
        IF Len(first) <= 12 THEN first
        ELSE PredictLpcFrom([j \in 1..12 |->
                                IF j <= 12 - Len(raw_coefficients) THEN 0
                                ELSE raw_coefficients[j - (12 - Len(raw_coefficients))]],
                            qlp_shift, first, 13, Len(first))
        : first \in {PredictLpcFrom(raw_coefficients, qlp_shift, buf,
                                    Len(raw_coefficients) + 1,
                                    IF Len(buf) < 12 THEN Len(buf) ELSE 12)}})

RECURSIVE ReadCoefficients(_, _, _, _, _)
\* `for coef in coefficients[..order].iter_mut().rev()`: the first one read is the last
ReadCoefficients(s, b, qlpc_precision, n, acc) ==
    IF n = 0 THEN DecOk(acc, b)
    ELSE The({
        IF ~r.ok THEN DecErr("IoError", r.bs)
        ELSE ReadCoefficients(s, r.bs, qlpc_precision, n - 1,
                              <<extend_sign_u16(r.v, qlpc_precision)>> \o acc)
        : r \in {read_len_u16(s, b, qlpc_precision)}})

\* the warm-up samples, the precision (4 bits), the shift (5 bits), the coefficients,
\* the residual, then the prediction
decode_lpc(s, b, fr_bps, order, len) ==
    IF len < order THEN DecErr("ParseError", b)
    ELSE The({
        IF warm.tag # "Ok" THEN warm
        ELSE The({
            IF ~precision.ok THEN DecErr("IoError", precision.bs)
            ELSE IF precision.v + 1 > 15 THEN DecErr("ParseError", precision.bs)
            ELSE The({
                IF ~shift.ok THEN DecErr("IoError", shift.bs)
                ELSE IF extend_sign_u16(shift.v, 5) < 0 THEN DecErr("Unsupported", shift.bs)
                ELSE The({
                    IF coefficients.tag # "Ok" THEN coefficients
                    ELSE The({
                        IF res.tag # "Ok" THEN res
                        ELSE DecOk(IF order <= 12
                                   THEN predict_lpc_low_order(coefficients.buf,
                                            extend_sign_u16(shift.v, 5),
                                            warm.buf \o res.buf)
                                   ELSE predict_lpc_high_order(coefficients.buf,
                                            extend_sign_u16(shift.v, 5),
                                            warm.buf \o res.buf),
                                   res.bs)
                        : res \in {decode_residual(s, coefficients.bs, len, len - order)}})
                    : coefficients \in
                          {ReadCoefficients(s, shift.bs, precision.v + 1, order, <<>>)}})
                : shift \in {read_len_u8(s, precision.bs, 5)}})
            : precision \in {read_len_u8(s, warm.bs, 4)}})
        : warm \in {decode_verbatim(s, b, fr_bps, order)}})

-----------------------------------------------------------------------------
(* flac/frame.rs: subframes, stereo decorrelation, Block, decode_next_frame *)

\* a - b wrapped into the i32 range
SubI32(a, b) == IF b = -2147483647 - 1 THEN AddI32(a, b) ELSE AddI32(a, -b)

RECURSIVE ShlI32(_, _)
\* i32::wrapping_shl for a shift below 32: `shift` doublings
ShlI32(x, shift) == IF shift = 0 THEN x ELSE ShlI32(AddI32(x, x), shift - 1)

\* x / 2 of Rust: the quotient rounded towards zero
HalfI32(x) == IF x >= 0 THEN x \div 2 ELSE (x + (x % 2)) \div 2

\* the kind of a 6-bit subframe type: [kind, order], kind "" for the reserved patterns
subframe_type_of(n) ==
    CASE n = 0 -> [kind |-> "Constant", order |-> 0]
      [] n = 1 -> [kind |-> "Verbatim", order |-> 0]
      [] n \in 2..7 \/ n \in 16..31 -> [kind |-> "", order |-> 0]
      [] n \in 8..15 -> IF n % 8 > 4 THEN [kind |-> "", order |-> 0]
                        ELSE [kind |-> "FixedLinear", order |-> n % 8]
      [] OTHER -> [kind |-> "Lpc", order |-> (n % 32) + 1]

\* the padding bit, the type (6 bits), the wasted bits flag and their unary count
\* (`if bitstream.read_bit()? { 1 + bitstream.read_unary()? } else { 0 }`), the samples,
\* then `s.wrapping_shl(wasted_bps)` on each
decode_subframe(s, b, bps, len) ==
    The({
        IF ~pad.ok THEN DecErr("IoError", pad.bs)
        ELSE IF pad.v THEN DecErr("ParseError", pad.bs)
        ELSE The({
            IF ~type.ok THEN DecErr("IoError", type.bs)
            ELSE IF subframe_type_of(type.v).kind = "" THEN DecErr("Unsupported", type.bs)
            ELSE The({
                IF ~has_wasted.ok THEN DecErr("IoError", has_wasted.bs)
                ELSE The({
                    IF ~unary.ok THEN DecErr("IoError", unary.bs)
                    ELSE The({
                        IF wasted_bps > bps THEN DecErr("ParseError", unary.bs)
                        ELSE The({
                            IF body.tag # "Ok" THEN body
                            ELSE IF wasted_bps > 0
                            THEN DecOk([i \in 1..Len(body.buf) |->
                                           ShlI32(body.buf[i], wasted_bps % 32)], body.bs)
                            ELSE body
                            : body \in
                                {CASE subframe_type.kind = "Constant" ->
                                          decode_constant(s, unary.bs, bps - wasted_bps, len)
                                   [] subframe_type.kind = "Verbatim" ->
                                          decode_verbatim(s, unary.bs, bps - wasted_bps, len)
                                   [] subframe_type.kind = "FixedLinear" ->
                                          decode_fixed_linear(s, unary.bs, bps - wasted_bps,
                                                              subframe_type.order, len)
                                   [] OTHER ->
                                          decode_lpc(s, unary.bs, bps - wasted_bps,
                                                     subframe_type.order, len)}})
                        : wasted_bps \in {IF has_wasted.v THEN 1 + unary.v ELSE 0}})
                    : unary \in {IF has_wasted.v THEN read_unary(s, has_wasted.bs)
                                 ELSE BitOk(0, has_wasted.bs)}})
                : subframe_type \in {subframe_type_of(type.v)},
                  has_wasted \in {read_bit(s, type.bs)}})
            : type \in {read_len_u8(s, pad.bs, 6)}})
        : pad \in {read_bit(s, b)}})

\* buffers hold channel 0 in the first half and channel 1 in the second
decode_left_side(buffer) ==
    LET block_size == Len(buffer) \div 2
    IN [i \in 1..Len(buffer) |->
            IF i <= block_size \/ i > 2 * block_size THEN buffer[i]
            ELSE SubI32(buffer[i - block_size], buffer[i])]

decode_right_side(buffer) ==
    LET block_size == Len(buffer) \div 2
    IN [i \in 1..Len(buffer) |->
            IF i <= block_size THEN AddI32(buffer[i + block_size], buffer[i])
            ELSE buffer[i]]

decode_mid_side(buffer) ==
    LET block_size == Len(buffer) \div 2
        mid(i) == AddI32(AddI32(buffer[i], buffer[i]), buffer[i + block_size] % 2)
    IN [i \in 1..Len(buffer) |->
            IF i <= block_size THEN HalfI32(AddI32(mid(i), buffer[i + block_size]))
            ELSE IF i <= 2 * block_size
                 THEN HalfI32(SubI32(mid(i - block_size), buffer[i]))
                 ELSE buffer[i]]

EmptyBlock ==
    [first_sample_index |-> 0, block_size |-> 0, no_channels |-> 0,
     bits_per_sample |-> 0, buffer |-> <<>>]

\* Block::new
NewBlock(sample_index, block_size, bps, buffer) ==
    [first_sample_index |-> sample_index, block_size |-> block_size,
     no_channels |-> Len(buffer) \div block_size, bits_per_sample |-> bps,
     buffer |-> buffer]

\* get_sample indexing the buffer as if it were interleaved
get_sample_interleaved(block, current_channel, samples_read) ==
    block.buffer[samples_read * block.no_channels + current_channel + 1]

\* Block::get_sample
get_sample(block, current_channel, samples_read) ==
    block.buffer[current_channel * block.block_size + samples_read + 1]

RECURSIVE DecodeChannels(_, _, _, _, _)
\* `otry!(decode_subframe(..))` for the channels in stream order; bpss[ch] is the depth
\* channel ch is read at, and its samples follow those of acc
DecodeChannels(s, b, bpss, len, acc) ==
    IF bpss = <<>> THEN DecOk(acc, b)
    ELSE The({
        IF sub.tag # "Ok" THEN sub
        ELSE DecodeChannels(s, sub.bs, Tail(bpss), len, acc \o sub.buf)
        : sub \in {decode_subframe(s, b, Head(bpss), len)}})

\* the CRC-16 read and not compared
frame_crc_unchecked(crc_computed, crc_read) == FALSE

\* `crc16reader.crc() != otry!(crc16reader.read_be_u16())`
frame_crc_mismatch(crc_computed, crc_read) == crc_computed # crc_read

FrameNone(p) == [tag |-> "None", block |-> EmptyBlock, pos |-> p]
FrameErr(kind, p) == [tag |-> kind, block |-> EmptyBlock, pos |-> p]

\* Option<Result<Block>>.  The buffer moved in from the previous block is overwritten in
\* full by the subframe decoders, so the block does not depend on it.  A side channel is
\* read at one bit more than the header's depth; the CRC-16 of the bytes of the frame is
\* compared against the two bytes that follow them
decode_next_frame(s, p, audio_info) ==
    IF ~read_be_u16(s, p).ok THEN FrameNone(Len(s))
    ELSE The({
        IF hdr.tag # "Ok" THEN FrameErr(hdr.tag, hdr.pos)
        ELSE The({
            IF subs.tag # "Ok" THEN FrameErr(subs.tag, subs.bs.pos)
            ELSE IF ~read_be_u16(s, subs.bs.pos).ok THEN FrameErr("IoError", Len(s))
            ELSE IF frame_crc_mismatch(Crc16(0, Consumed(s, p, subs.bs.pos)),
                                       read_be_u16(s, subs.bs.pos).v)
            THEN FrameErr("ParseError", subs.bs.pos + 2)
            ELSE [tag |-> "Ok",
                  block |->
                      NewBlock(IF hdr.h.block_type = "FrameNumber"
                               THEN hdr.h.block_size * hdr.h.number
                               ELSE hdr.h.number,
                               hdr.h.block_size, hdr.h.bits_per_sample,
                               CASE hdr.h.channel_type = "Independent" -> subs.buf
                                 [] hdr.h.channel_type = "LeftSideStereo" ->
                                        decode_left_side(subs.buf)
                                 [] hdr.h.channel_type = "RightSideStereo" ->
                                        decode_right_side(subs.buf)
                                 [] OTHER -> decode_mid_side(subs.buf)),
                  pos |-> subs.bs.pos + 2]
            : subs \in
                {DecodeChannels(s, NewBitStream(hdr.pos),
                    CASE hdr.h.channel_type = "Independent" ->
                             [ch \in 1..hdr.h.n |-> hdr.h.bits_per_sample]
                      [] hdr.h.channel_type = "LeftSideStereo" ->
                             <<hdr.h.bits_per_sample, hdr.h.bits_per_sample + 1>>
                      [] hdr.h.channel_type = "RightSideStereo" ->
                             <<hdr.h.bits_per_sample + 1, hdr.h.bits_per_sample>>
                      [] OTHER -> <<hdr.h.bits_per_sample, hdr.h.bits_per_sample + 1>>,
                    hdr.h.block_size, <<>>)}})
        : hdr \in {read_frame_header(s, p + 2, audio_info, read_be_u16(s, p).v, p)}})

-----------------------------------------------------------------------------
(* The sample iterators (wav/mod.rs, flac/mod.rs) and AudioSegment          *)
(* (audio.rs).  An iterator is a record with the fields of both kinds; an   *)
(* item is what one call of next() returned: res is "None", "Ok" (with the  *)
(* sample v) or the kind of the error of Some(Err(_)).                      *)

NoIterator ==
    [kind |-> "none", S |-> "", samples_left |-> 0, current_block |-> EmptyBlock,
     samples_read |-> 0, current_channel |-> 0, has_failed |-> FALSE]

Item(res, v) == [res |-> res, v |-> v]

\* WavSamplesIterator::new counting bytes: the length of the data chunk
WavSamplesIterator_new_bytes(S, info) ==
    [NoIterator EXCEPT !.kind = "wav", !.S = S,
                       !.samples_left = info.total_samples * (info.bits_per_sample \div 8)]

WavSamplesIterator_new(S, info) ==
    [NoIterator EXCEPT !.kind = "wav", !.S = S, !.samples_left = info.total_samples]

FlacSamplesIterator_new(S, info) ==
    [NoIterator EXCEPT !.kind = "flac", !.S = S]

\* WavSamplesIterator::next: [item, iter, pos]
WavSamplesIterator_next(it, s, p, audio_info) ==
    IF it.samples_left > 0
    THEN The({[item |-> Item(sample.res, sample.v),
               iter |-> [it EXCEPT !.samples_left = @ - 1], pos |-> sample.pos]
              : sample \in {read_pcm(it.S, s, p, audio_info.codec_type)}})
    ELSE [item |-> Item("None", NoSample), iter |-> it, pos |-> p]

\* FlacSamplesIterator::next: [item, iter, pos].  `step` is the iterator where the
\* function reaches its last expression, `Some(Sample::from_i32(..))`, or what an early
\* return left; the iterator holds the empty block while the next frame is decoded
FlacSamplesIterator_next(it, s, p, audio_info) ==
    IF it.has_failed THEN [item |-> Item("None", NoSample), iter |-> it, pos |-> p]
    ELSE The({
        IF step.item.res # "Ok" THEN step
        ELSE The({[item |-> Item(sample.res, sample.v), iter |-> step.iter,
                   pos |-> step.pos]
                  : sample \in
                      {from_i32(step.iter.S,
                                get_sample(step.iter.current_block,
                                           step.iter.current_channel,
                                           step.iter.samples_read),
                                step.iter.current_block.bits_per_sample)}})
        : step \in
            {IF it.current_channel + 1 < it.current_block.no_channels
             THEN [item |-> Item("Ok", NoSample),
                   iter |-> [it EXCEPT !.current_channel = @ + 1], pos |-> p]
             ELSE IF it.samples_read + 1 < it.current_block.block_size
             THEN [item |-> Item("Ok", NoSample),
                   iter |-> [it EXCEPT !.current_channel = 0, !.samples_read = @ + 1],
                   pos |-> p]
             ELSE The({
                 IF frame.tag = "Ok"
                 THEN [item |-> Item("Ok", NoSample),
                       iter |-> [it EXCEPT !.current_channel = 0, !.samples_read = 0,
                                           !.current_block = frame.block],
                       pos |-> frame.pos]
                 ELSE IF frame.tag = "None"
                 THEN [item |-> Item("None", NoSample),
                       iter |-> [it EXCEPT !.current_channel = 0, !.samples_read = 0,
                                           !.current_block = EmptyBlock],
                       pos |-> frame.pos]
                 ELSE [item |-> Item(frame.tag, NoSample),
                       iter |-> [it EXCEPT !.current_channel = 0, !.samples_read = 0,
                                           !.current_block = EmptyBlock,
                                           !.has_failed = TRUE],
                       pos |-> frame.pos]
                 : frame \in {decode_next_frame(s, p, audio_info)}})}})

\* AudioSegment::create_audio_segment: the reader of the format flag reads the header
create_audio_segment(s, format_flag) ==
    CASE format_flag = "WAV" -> WavReader_read_header(s, 0)
      [] format_flag = "FLAC" -> FlacReader_read_header(s, 0)
      [] OTHER -> Err("Unsupported", 0)

\* AudioSegment::number_channels
number_channels(info) == count(info.channels)

\* samples() without `self.is_buffer_used = true`
samples_flag_not_set(used, codec_flag, S, info) ==
    IF used THEN [res |-> "Unsupported", is_buffer_used |-> used, iter |-> NoIterator]
    ELSE [res |-> "Ok", is_buffer_used |-> used,
          iter |-> IF codec_flag = "WAV" THEN WavSamplesIterator_new(S, info)
                   ELSE FlacSamplesIterator_new(S, info)]

\* AudioSegment::samples: [res, is_buffer_used, iter]
samples(used, codec_flag, S, info) ==
    IF used THEN [res |-> "Unsupported", is_buffer_used |-> used, iter |-> NoIterator]
    ELSE [res |-> "Ok", is_buffer_used |-> TRUE,
          iter |-> IF codec_flag = "WAV" THEN WavSamplesIterator_new(S, info)
                   ELSE FlacSamplesIterator_new(S, info)]

-----------------------------------------------------------------------------
(* The input files.  A file is built from a description, `meta`, that the   *)
(* decoder never sees; the families below are the descriptions explored.    *)

\* the longest `data` payload of the sample-by-sample WAV files, in bytes
MaxDataBytes == 4
\* the most frames of a FLAC file
MaxFrames == 2
\* the largest block size of a FLAC frame
MaxBlockSize == 2
\* the most calls of samples() on a segment and of next() on an iterator
MaxSamplesCalls == 2
MaxNextCalls == 10

\* the `width` bytes of n, least and most significant byte first
Le(n, width) == [i \in 1..width |-> (n \div Pow2(8 * (i - 1))) % 256]
Be(n, width) == [i \in 1..width |-> (n \div Pow2(8 * (width - i))) % 256]

\* every sequence over `alphabet` of a length in `lens`
SeqsOf(alphabet, lens) == UNION {[1..n -> alphabet] : n \in lens}

TAG_LIST == <<76, 73, 83, 84>>
KSDATAFORMAT_SUBTYPE_OTHER == <<85, 0, 0, 0, 0, 0, 16, 0, 128, 0, 0, 170, 0, 56, 155, 113>>

\* the bytes of the chunk `id` of the WAV file described by m; a `fmt ` chunk starts
\* with the 16 bytes of the common fields
ChunkOf(m, id) ==
    CASE id = "fmt " ->
            TAG_fmt \o Le(m.fmt_len, 4)
                \o Le(m.format_tag, 2) \o Le(m.n_channels, 2) \o Le(m.sample_rate, 4)
                \o Le(m.sample_rate * m.block_align, 4) \o Le(m.block_align, 2)
                \o Le(m.bits, 2) \o m.extra
      [] id = "data" -> TAG_data \o Le(m.data_len, 4) \o m.payload
      [] id = "LIST" -> TAG_LIST \o Le(2, 4) \o <<1, 2>>

WavStream(m) ==
    LET chunks == Concat([i \in 1..Len(m.order) |-> ChunkOf(m, m.order[i])])
    IN TAG_RIFF \o Le(4 + Len(chunks), 4) \o TAG_WAVE \o chunks

\* a description of a WAV file: a `fmt ` chunk of declared length fmt_len whose bytes
\* after the first 16 are `extra`, and a `data` chunk of declared length data_len
WavMeta(family, order, format_tag, n_channels, sample_rate, bits, fmt_len, extra, data_len, payload) ==
    [format |-> "WAV", family |-> family, order |-> order, format_tag |-> format_tag,
     n_channels |-> n_channels, sample_rate |-> sample_rate, bits |-> bits,
     block_align |-> (n_channels * bits) \div 8,
     fmt_len |-> fmt_len, extra |-> extra, data_len |-> data_len, payload |-> payload,
     frames |-> <<>>]

\* the extension of WAVE_FORMAT_EXTENSIBLE: size, valid bits, channel mask, sub-format
ExtExtra(valid_bits, mask, guid) == Le(22, 2) \o Le(valid_bits, 2) \o Le(mask, 4) \o guid

\* a well-formed 16-bit PCM `fmt ` chunk followed by a `data` chunk, as bytes
NestedFile ==
    LET m == WavMeta("", <<>>, 1, 1, 8000, 16, 16, <<>>, 2, <<1, 255>>)
    IN ChunkOf(m, "fmt ") \o ChunkOf(m, "data")

\* The WAV files, in five families.
\* "dialect": every basic dialect with every channel count, rate and depth, well formed
\*    or not.
\* "ieee": IEEE float `fmt ` chunks of every declared length around 16 and 18.
\* "ext": extensible files, with every channel mask of a few shapes and with every
\*    sub-format and depth.
\* "structure": the chunks in every order, with and without `fmt `, and `data` payloads
\*    that look like chunks themselves.
\* "payload": 8- and 16-bit PCM files with every short payload, the `data` chunk
\*    declaring the length of the payload or more than it.
WavInputs ==
    {WavMeta("dialect", <<"fmt ", "data">>, tag, n, rate, bits, 16, <<>>, 4,
             <<1, 255, 255, 1>>) :
        tag \in {1, 2, 3, 6, 7}, n \in 0..3, rate \in {0, 8000},
        bits \in {0, 8, 16, 24, 32, 64}}
    \cup
    {WavMeta("ieee", <<"fmt ", "data">>, 3, 1, 8000, 32, l[1], l[2], 4, <<0, 0, 128, 63>>) :
        l \in {<<15, <<>>>>, <<16, <<>>>>, <<17, <<>>>>, <<17, <<0>>>>, <<17, <<0, 0>>>>,
               <<18, <<0, 0>>>>, <<18, <<1, 0>>>>, <<18, <<>>>>, <<19, <<0, 0, 0>>>>,
               <<20, <<0, 0, 0, 0>>>>, <<20, <<0, 0>>>>}}
    \cup
    {WavMeta("ext", <<"fmt ", "data">>, 65534, 2, 8000, 16, 40,
             ExtExtra(16, mask, KSDATAFORMAT_SUBTYPE_PCM), 4, <<1, 255, 255, 1>>) :
        mask \in {0, 1, 3, 4, 5, 7, 51, 55, 63, 319, 1599, 1855, 2047, 262143}}
    \cup
    {WavMeta("ext", <<"fmt ", "data">>, 65534, 2, 8000, 16, 40,
             ExtExtra(valid, 3, guid), 4, <<1, 255, 255, 1>>) :
        valid \in {0, 8, 12, 16, 32, 40, 64},
        guid \in {KSDATAFORMAT_SUBTYPE_PCM, KSDATAFORMAT_SUBTYPE_IEEE_FLOAT,
                  KSDATAFORMAT_SUBTYPE_ALAW, KSDATAFORMAT_SUBTYPE_MULAW,
                  KSDATAFORMAT_SUBTYPE_OTHER}}
    \cup
    {WavMeta("structure", order, 1, 1, 8000, 16, 16, <<>>, Len(payload), payload) :
        order \in {<<>>, <<"fmt ">>, <<"data">>, <<"LIST">>, <<"fmt ", "data">>,
                   <<"data", "fmt ">>, <<"LIST", "data">>, <<"LIST", "fmt ", "data">>,
                   <<"fmt ", "LIST", "data">>, <<"data", "fmt ", "data">>,
                   <<"data", "LIST">>, <<"data", "data">>},
        payload \in {<<>>, <<1, 255>>, <<0, 0, 0, 0>>, <<1, 2, 3, 4, 0, 0, 0, 0>>,
                     <<1, 2, 3, 4, 10, 0, 0, 0>>, NestedFile}}
    \cup
    {WavMeta("payload", <<"fmt ", "data">>, 1, 1, 8000, 16, 16, <<>>,
             Len(payload) + excess, payload) :
        excess \in {0, 4}, payload \in SeqsOf({1, 255}, 0..MaxDataBytes)}
    \cup
    {WavMeta("payload", <<"fmt ", "data">>, 1, n, 8000, bits, 16, <<>>,
             Len(payload), payload) :
        n \in {1, 2}, bits \in {8, 16}, payload \in SeqsOf({128}, 0..MaxDataBytes)}

-----------------------------------------------------------------------------
(* FLAC files: a STREAMINFO block and frames of verbatim or constant        *)
(* subframes, bit-packed as the format lays them out.                       *)

\* the low n bits of v (two's complement for a negative v), most significant first
Bits(v, n) == [i \in 1..n |-> ((v % Pow2(n)) \div Pow2(n - i)) % 2]

\* bits to bytes, the last byte padded with zeros
PackBits(bits) ==
    LET bit(k) == IF k <= Len(bits) THEN bits[k] ELSE 0
    IN [j \in 1..((Len(bits) + 7) \div 8) |->
            ((128 * bit(8 * j - 7) + 64 * bit(8 * j - 6))
                + (32 * bit(8 * j - 5) + 16 * bit(8 * j - 4)))
            + ((8 * bit(8 * j - 3) + 4 * bit(8 * j - 2))
                + (2 * bit(8 * j - 1) + bit(8 * j)))]

\* the metadata block header and the 34 bytes of a STREAMINFO block
StreamInfoBlock(is_last, type, length, min_bs, sample_rate, n_channels, bps, total) ==
    <<(IF is_last THEN 128 ELSE 0) + type>> \o Be(length, 3)
        \o Be(min_bs, 2) \o Be(4096, 2) \o Be(0, 3) \o Be(0, 3)
        \o Be(sample_rate * 16 + (n_channels - 1) * 2 + (bps - 1) \div 16, 3)
        \o <<((bps - 1) % 16) * 16>> \o Be(total, 4)
        \o [i \in 1..16 |-> 0]

\* the sample i of channel c of frame number k: distinct over a file, channel 1 negative
SampleValue(k, c, i) ==
    IF c = 0 THEN 16 * k + i + 1 ELSE -(16 * k + 4 * c + i + 1)

\* the channel-major samples a frame of the description f, number k, encodes
FrameSamples(k, f) ==
    [j \in 1..(f.n * f.block_size) |->
        LET c == (j - 1) \div f.block_size
            i == (j - 1) % f.block_size
        IN SampleValue(k, c, IF f.kind = "constant" THEN 0 ELSE i)]

\* the bits of the subframe of channel c: padding bit, 6-bit type, no wasted bits, samples
SubframeBits(k, f, c) ==
    LET type == IF f.defect = "reserved" /\ c = f.n - 1 THEN 2
                ELSE IF f.kind = "constant" THEN 0 ELSE 1
        n_values == IF f.kind = "constant" THEN 1 ELSE f.block_size
    IN <<0>> \o Bits(type, 6) \o <<0>>
           \o Concat([i \in 1..n_values |-> Bits(SampleValue(k, c, i - 1), f.bps)])

\* the bytes of frame number k of the description f, with the defect f names
FrameBytes(k, f) ==
    LET bps_code == IF f.bps = 8 THEN 1 ELSE IF f.bps = 16 THEN 4 ELSE 6
        head == <<255, 248, 6 * 16, (f.n - 1) * 16 + bps_code * 2, k, f.block_size - 1>>
        crc8 == Crc8(0, head)
        head_crc == Append(head, IF f.defect = "crc8" THEN (crc8 + 1) % 256 ELSE crc8)
        body == PackBits(Concat([c \in 1..f.n |-> SubframeBits(k, f, c - 1)]))
        crc16 == Crc16(0, head_crc \o body)
        frame == head_crc \o body
                    \o Be(IF f.defect = "crc16" THEN (crc16 + 1) % 65536 ELSE crc16, 2)
    IN CASE f.defect = "truncated" -> SubSeq(frame, 1, Len(frame) - 3)
         [] f.defect = "sync" -> <<255>>
         [] OTHER -> frame

FrameOf(n, block_size, bps, kind, defect) ==
    [n |-> n, block_size |-> block_size, bps |-> bps, kind |-> kind, defect |-> defect]

\* The frames of a file are at most MaxFrames.  The last one may decode (every shape in
\* 8 bits, and one of 24 bits) or not: a wrong header CRC-8, a wrong frame CRC-16, a
\* reserved type in the last subframe, the end of the file inside the frame and inside
\* the sync code.  The frames before it decode or have a wrong CRC-16.
FrameLists ==
    {<<>>} \cup
    UNION {{Append(lead, f) :
               lead \in [1..(n - 1) ->
                            {FrameOf(2, MaxBlockSize, 8, "verbatim", "none"),
                             FrameOf(1, 1, 8, "verbatim", "none"),
                             FrameOf(2, MaxBlockSize, 8, "verbatim", "crc16")}],
               f \in {FrameOf(c, bs, 8, "verbatim", "none") :
                          c \in 1..2, bs \in 1..MaxBlockSize}
                     \cup {FrameOf(1, MaxBlockSize, 24, "verbatim", "none"),
                           FrameOf(2, 1, 8, "constant", "none")}
                     \cup {FrameOf(2, MaxBlockSize, 8, "verbatim", defect) :
                              defect \in {"crc8", "crc16", "reserved", "truncated",
                                          "sync"}}} :
           n \in 1..MaxFrames}

FlacMeta(family, blocks, sample_rate, n_channels, bits, frames) ==
    [format |-> "FLAC", family |-> family, order |-> blocks, format_tag |-> 0,
     n_channels |-> n_channels, sample_rate |-> sample_rate, bits |-> bits,
     block_align |-> 0, fmt_len |-> 0, extra |-> <<>>, data_len |-> 0, payload |-> <<>>,
     frames |-> frames]

\* the bytes of the metadata block `id` of the FLAC file described by m
BlockOf(m, id, is_last) ==
    CASE id = "STREAMINFO" ->
            StreamInfoBlock(is_last, 0, 34, 16, m.sample_rate, m.n_channels, m.bits, 0)
      [] id = "short" ->
            StreamInfoBlock(is_last, 0, 33, 16, m.sample_rate, m.n_channels, m.bits, 0)
      [] id = "small" ->
            StreamInfoBlock(is_last, 0, 34, 15, m.sample_rate, m.n_channels, m.bits, 0)
      [] id = "PADDING" -> <<(IF is_last THEN 128 ELSE 0) + 1>> \o Be(2, 3) \o <<0, 0>>
      [] id = "invalid" -> <<(IF is_last THEN 128 ELSE 0) + 127>> \o Be(0, 3)

FlacStream(m) ==
    TAG_fLaC
        \o Concat([i \in 1..Len(m.order) |-> BlockOf(m, m.order[i], i = Len(m.order))])
        \o Concat([k \in 1..Len(m.frames) |-> FrameBytes(k - 1, m.frames[k])])

\* The FLAC files, in two families.
\* "frames": frames after a STREAMINFO block that agrees with nothing in particular.
\* "header": STREAMINFO blocks of every channel count and depth, rates at and beyond
\*    both ends of the range, and the metadata in several arrangements.
FlacInputs ==
    {FlacMeta("frames", <<"STREAMINFO">>, 44100, 2, 16, frames) : frames \in FrameLists}
    \cup
    {FlacMeta("header", <<"STREAMINFO">>, rate, n, bits, <<>>) :
        rate \in {0, 1, 44100, 655350, 655351}, n \in 1..8, bits \in {1, 8, 16, 24, 32}}
    \cup
    {FlacMeta("header", blocks, 44100, 2, 16, <<>>) :
        blocks \in {<<>>, <<"PADDING">>, <<"PADDING", "STREAMINFO">>,
                    <<"STREAMINFO", "PADDING">>, <<"short">>, <<"small">>, <<"invalid">>,
                    <<"invalid", "STREAMINFO">>, <<"STREAMINFO", "invalid">>}}

-----------------------------------------------------------------------------
(* The state machine: a file is chosen, create_audio_segment reads its      *)
(* header, and the segment is used through samples() and the iterator.      *)

Inputs == WavInputs \cup FlacInputs

StreamOf(m) == IF m.format = "WAV" THEN WavStream(m) ELSE FlacStream(m)

\* the format flags a file is opened with: its own, and for one file the others
FlagsOf(m) ==
    IF m.family = "header" /\ m.order = <<>> THEN {"FLAC", "WAV", "AAC"} ELSE {m.format}

NoHeader == [tag |-> "none", info |-> NullInfo, pos |-> 0]

\* no function is called on its own
NoCall == [fn |-> "", args |-> <<>>, done |-> FALSE, result |-> <<>>]

Init ==
    /\ meta \in Inputs
    /\ stream = StreamOf(meta)
    /\ flag \in FlagsOf(meta)
    /\ pos = 0
    /\ header = NoHeader
    /\ is_buffer_used = FALSE
    /\ iter = NoIterator
    /\ samples_results = <<>>
    /\ out = <<>>
    /\ call = NoCall
    /\ overflow_checks \in BOOLEAN

\* AudioSegment::create_audio_segment; the segment exists when header.tag is "Ok"
CreateSegment ==
    /\ header.tag = "none"
    /\ header' = create_audio_segment(stream, flag)
    /\ pos' = header'.pos
    /\ UNCHANGED <<stream, meta, flag, is_buffer_used, iter, samples_results, out, call,
                   overflow_checks>>

\* AudioSegment::samples::<S>(); the borrow of the segment by a live iterator keeps the
\* call from compiling, so no iterator is alive
Samples(S) ==
    /\ header.tag = "Ok"
    /\ iter.kind = "none"
    /\ Len(samples_results) < MaxSamplesCalls
    /\ \E r \in {samples(is_buffer_used, flag, S, header.info)} :
          /\ is_buffer_used' = r.is_buffer_used
          /\ iter' = r.iter
          /\ samples_results' = Append(samples_results, [S |-> S, res |-> r.res])
    /\ UNCHANGED <<stream, meta, flag, pos, header, out, call, overflow_checks>>

\* next() on the iterator of a WAV segment
WavNext ==
    /\ iter.kind = "wav"
    /\ Len(out) < MaxNextCalls
    /\ \E r \in {WavSamplesIterator_next(iter, stream, pos, header.info)} :
          /\ out' = Append(out, r.item)
          /\ iter' = r.iter
          /\ pos' = r.pos
    /\ UNCHANGED <<stream, meta, flag, header, is_buffer_used, samples_results, call,
                   overflow_checks>>

\* next() on the iterator of a FLAC segment
FlacNext ==
    /\ iter.kind = "flac"
    /\ Len(out) < MaxNextCalls
    /\ \E r \in {FlacSamplesIterator_next(iter, stream, pos, header.info)} :
          /\ out' = Append(out, r.item)
          /\ iter' = r.iter
          /\ pos' = r.pos
    /\ UNCHANGED <<stream, meta, flag, header, is_buffer_used, samples_results, call,
                   overflow_checks>>

\* the iterator goes out of scope
DropIterator ==
    /\ iter.kind # "none"
    /\ iter' = NoIterator
    /\ UNCHANGED <<stream, meta, flag, pos, header, is_buffer_used, samples_results, out, call,
                   overflow_checks>>

Next ==
    \/ CreateSegment
    \/ \E S \in SampleTypes : Samples(S)
    \/ WavNext
    \/ FlacNext
    \/ DropIterator

Spec == Init /\ [][Next]_vars

-----------------------------------------------------------------------------
(* The functions of the decoder called on their own: `call` holds the       *)
(* function, its arguments and, once the call was made, what it returned.   *)

\* the bytes of a frame header of fixed blocking strategy: sync code, block size code
\* with the sample rate code of 44.1 kHz, one channel of 16 bits, frame number 0, the
\* bytes `last` deferred to the end of the header and the CRC-8 of all of them
FrameHeaderBytes(bs_code, last) ==
    <<255, 248, bs_code * 16 + 9, 8, 0>> \o last
        \o <<Crc8(0, <<255, 248, bs_code * 16 + 9, 8, 0>> \o last)>>

\* byte strings for read_utf8_coded_int: a first byte of every number of leading 1 bits
\* and, after it, the continuation bytes it asks for: all of them sound (with a byte
\* more than asked for), one of them not of the form 10xxxxxx, or the last one missing
Utf8Inputs ==
    UNION {{<<first>> \o tail :
               tail \in LET extra == IF leading_zeros(255 - first) > 1
                                     THEN leading_zeros(255 - first) - 1 ELSE 0
                            good == [j \in 1..extra |-> 128]
                        IN {good \o <<128>>}
                           \cup {[good EXCEPT ![j] = b] \o <<128>> :
                                    j \in 1..extra, b \in {0, 192}}
                           \cup {[good EXCEPT ![j] = 191] \o <<128>> : j \in {extra} \ {0}}
                           \cup {SubSeq(good, 1, extra - 1) : j \in {extra} \ {0}}} :
           first \in {0, 127, 128, 191, 192, 223, 224, 240, 248, 252, 253, 254, 255}}

\* the largest of the small values rice_to_signed is called on
MaxRiceValue == 40
\* the longest sequence of samples a fixed predictor is called on
MaxFixedLen == 5

\* the longest buffer the LPC predictors are called on
MaxLpcLen == 14

\* what an encoder writes for the samples s with the fixed predictor of the order: the
\* first `order` samples as they are, then each sample less its prediction
FixedEncode(order, s) ==
    [i \in 1..Len(s) |->
        IF i <= order THEN s[i]
        ELSE s[i] - (CASE order = 0 -> 0
                       [] order = 1 -> s[i - 1]
                       [] order = 2 -> 2 * s[i - 1] - s[i - 2]
                       [] order = 3 -> 3 * s[i - 1] - 3 * s[i - 2] + s[i - 3]
                       [] order = 4 -> 4 * s[i - 1] - 6 * s[i - 2] + 4 * s[i - 3] - s[i - 4])]

\* what an encoder stores for the channels left and right in the mid/side mode:
\* mid = (left + right) >> 1 and side = left - right, the mids before the sides
MidSideEncode(left, right) ==
    [i \in 1..Len(left) |-> Sar(AddI32(left[i], right[i]), 1)]
        \o [i \in 1..Len(left) |-> SubI32(left[i], right[i])]

-----------------------------------------------------------------------------
(* utils.rs *)

\* `x as iN` of an i32: the low `bits` bits read as a signed value
CastSigned(x, bits) ==
    (((x % Pow2(bits)) + Pow2(bits - 1)) % Pow2(bits)) - Pow2(bits - 1)

NarrowOk(v) == [tag |-> "Ok", v |-> v, msg |-> ""]

\* errors::parse_error(msg)
NarrowErr(msg) == [tag |-> "ParseError", v |-> 0, msg |-> msg]

\* narrow_to_i16 refusing i16::MIN as well
narrow_to_i16_exclusive(x) ==
    IF x <= -32768 \/ x > 32767 THEN NarrowErr("Too Wide to cast to i16")
    ELSE NarrowOk(CastSigned(x, 16))

narrow_to_i8(x) ==
    IF x < -128 \/ x > 127 THEN NarrowErr("Too Wide to cast to i8")
    ELSE NarrowOk(CastSigned(x, 8))

narrow_to_i16(x) ==
    IF x < -32768 \/ x > 32767 THEN NarrowErr("Too Wide to cast to i16")
    ELSE NarrowOk(CastSigned(x, 16))

narrow_to_i24(x) ==
    IF x < -Pow2(23) \/ x > Pow2(23) - 1 THEN NarrowErr("Too Wide to cast to i24")
    ELSE NarrowOk(x)

\* how far around each limit of a range the narrowing functions are called
NarrowMargin == 2

\* the largest block decode_residual is called on
MaxResidualBlock == 8

\* a residual as an encoder writes it: the coding method (2 bits), the partition order
\* p (4 bits), then 2^p partitions of rice parameter 0 whose residuals are all 0 (one 1
\* bit each), the first one shorter by the warm-up samples; a byte of 1 bits follows
ResidualBytes(method, p, block_size, warm) ==
    LET width == IF method = 1 THEN 5 ELSE 4
        first == IF block_size \div Pow2(p) > warm THEN (block_size \div Pow2(p)) - warm ELSE 0
        partition(n) == Bits(0, width) \o [i \in 1..n |-> 1]
        others[k \in 0..Pow2(p) - 1] ==
            IF k = 0 THEN <<>> ELSE others[k - 1] \o partition(block_size \div Pow2(p))
    IN PackBits(Bits(method, 2) \o Bits(p, 4) \o partition(first) \o others[Pow2(p) - 1])
           \o <<255>>

\* the deepest of the subframes of every depth decode_subframe is called on
MaxSubframeBps == 4

\* a subframe as an encoder writes it: the padding bit, the type (0 constant, 1 verbatim),
\* the wasted bits flag with `wasted` in unary, then the samples without their wasted
\* bits, in bps - wasted bits each; a byte of 1 bits follows
SubframeBytes(type, bps, wasted, values) ==
    PackBits(<<0>> \o Bits(type, 6)
                 \o (IF wasted = 0 THEN <<0>>
                     ELSE <<1>> \o [i \in 1..(wasted - 1) |-> 0] \o <<1>>)
                 \o (IF wasted >= bps THEN <<>>
                     ELSE Concat([i \in 1..(IF type = 0 THEN 1 ELSE Len(values)) |->
                                     Bits(values[i], bps - wasted)])))
        \o <<255>>

FnInit ==
    /\ stream = <<>>
    /\ meta = <<>>
    /\ flag = ""
    /\ pos = 0
    /\ header = NoHeader
    /\ is_buffer_used = FALSE
    /\ iter = NoIterator
    /\ samples_results = <<>>
    /\ out = <<>>
    /\ overflow_checks \in BOOLEAN
    /\ \/ \E bs_code \in 0..15 :
             \E last \in IF bs_code = 6 THEN {<<0>>, <<255>>}
                         ELSE IF bs_code = 7
                         THEN {<<0, 0>>, <<0, 255>>, <<1, 0>>, <<255, 254>>, <<255, 255>>}
                         ELSE {<<>>} :
                 call = [NoCall EXCEPT !.fn = "read_frame_header",
                                       !.args = <<FrameHeaderBytes(bs_code, last)>>]
       \/ \E bytes \in Utf8Inputs :
             call = [NoCall EXCEPT !.fn = "read_utf8_coded_int", !.args = <<bytes>>]
       \/ \E val \in 0..MaxRiceValue \cup {2147483646, 2147483647} :
             call = [NoCall EXCEPT !.fn = "rice_to_signed", !.args = <<val>>]
       \/ \E order \in 0..4 :
             \E s \in SeqsOf({-2, 0, 3}, order..MaxFixedLen) \cup {<<100, 105, 100, 105>>} :
                 call = [NoCall EXCEPT !.fn = "fixed_predict",
                                       !.args = <<order, FixedEncode(order, s), s>>]
       \/ \E order \in 0..4 :
             \E buf \in SeqsOf({-2147483647 - 1, -1, 1, 2147483647}, {order + 1}) :
                 call = [NoCall EXCEPT !.fn = "fixed_predict",
                                       !.args = <<order, buf, <<>>>>]
       \/ \E order \in 1..12, shape \in 1..4, qlp_shift \in {0, 1, 3, 15}, step \in 1..2 :
             \E len \in {order, order + 1, 11, 12, 13, MaxLpcLen} :
                 /\ len >= order
                 /\ call = [NoCall EXCEPT
                               !.fn = "predict_lpc",
                               !.args = <<[k \in 1..order |->
                                             CASE shape = 1 -> 1
                                               [] shape = 2 -> -1
                                               [] shape = 3 -> (k % 3) - 1
                                               [] shape = 4 -> IF k % 2 = 1 THEN 2 ELSE -1],
                                         qlp_shift,
                                         [i \in 1..len |-> ((i * step) % 5) - 2]>>]
       \/ \E residual \in {<<188, -189, 49, 3, 37, 150, -353, -49>>, [i \in 1..8 |-> 0]} :
             call = [NoCall EXCEPT
                        !.fn = "predict_lpc",
                        !.args = <<<<-77, 164, -219, 146, 38, 161, -895, 1151>>, 9,
                                   <<3590, 3465, 2979, 2237, 1692, 1411, 900, 476>>
                                       \o residual>>]
       \/ \E left \in {-2147483647 - 1, -1073741825, -1073741824, -3, -2, -1, 0, 1, 2, 3,
                       1073741823, 1073741824, 2147483647},
             right \in {-2147483647 - 1, -1073741825, -1073741824, -3, -2, -1, 0, 1, 2, 3,
                        1073741823, 1073741824, 2147483647} :
             call = [NoCall EXCEPT !.fn = "decode_mid_side",
                                   !.args = <<<<left>>, <<right>>>>]
       \/ \E left \in SeqsOf({-3, 0, 2}, {2}), right \in SeqsOf({-3, 0, 2}, {2}) :
             call = [NoCall EXCEPT !.fn = "decode_mid_side", !.args = <<left, right>>]
       \/ \E limit \in {-8388608, -32768, -128, 0, 127, 32767, 8388607},
             d \in -NarrowMargin..NarrowMargin :
             call = [NoCall EXCEPT !.fn = "narrow_to", !.args = <<limit + d>>]
       \/ \E x \in {-2147483647 - 1, -2147483647, -65536, 256, 65536, 16777216, 2147483647} :
             call = [NoCall EXCEPT !.fn = "narrow_to", !.args = <<x>>]
       \/ \E S \in {"u8", "i16", "i32", "f32", "f64"}, bits \in 1..32 :
             \E value \in {IF bits = 32 THEN -2147483647 - 1 ELSE -Pow2(bits - 1),
                           -1, 0, 1,
                           IF bits = 32 THEN 2147483647 ELSE Pow2(bits - 1) - 1} :
                 call = [NoCall EXCEPT !.fn = "from_i32", !.args = <<S, value, bits>>]
       \/ \E method \in 0..3, p \in 0..4, block_size \in 1..MaxResidualBlock, warm \in 0..4 :
             /\ warm <= block_size
             /\ call = [NoCall EXCEPT
                           !.fn = "decode_residual",
                           !.args = <<method, p, block_size, warm,
                                      ResidualBytes(method, p, block_size, warm)>>]
       \/ \E type \in 0..1, bps \in (1..MaxSubframeBps) \cup {9, 17} :
             \E wasted \in 0..(bps + 1), shape \in 1..2 :
                 \E values \in {IF wasted >= bps THEN <<0, 0>>
                                ELSE IF type = 0 THEN IF shape = 1 THEN <<-1, -1>> ELSE <<0, 0>>
                                ELSE IF shape = 1
                                     THEN <<-Pow2(bps - wasted - 1), Pow2(bps - wasted - 1) - 1>>
                                     ELSE <<-1, 0>>} :
                     call = [NoCall EXCEPT
                                !.fn = "decode_subframe",
                                !.args = <<type, bps, wasted, values,
                                           SubframeBytes(type, bps, wasted, values)>>]
       \/ \E dialect \in {<<WAVE_FORMAT_PCM, 16>>, <<WAVE_FORMAT_IEEE_FLOAT, 32>>,
                          <<WAVE_FORMAT_ALAW, 8>>, <<WAVE_FORMAT_MULAW, 8>>,
                          <<WAVE_FORMAT_EXTENSIBLE, 16>>},
             n_channels \in 1..2, chunk_len \in {16, 17, 18, 20, 40, 42} :
             \E m \in {WavMeta("", <<>>, dialect[1], n_channels, 8000, dialect[2], chunk_len,
                               IF dialect[1] = WAVE_FORMAT_EXTENSIBLE /\ chunk_len >= 40
                               THEN ExtExtra(16, 3, KSDATAFORMAT_SUBTYPE_PCM)
                                        \o [i \in 1..(chunk_len - 40) |-> 0]
                               ELSE [i \in 1..(chunk_len - 16) |-> 0],
                               2, <<1, 255>>)} :
                 call = [NoCall EXCEPT
                            !.fn = "read_next_chunk",
                            !.args = <<ChunkOf(m, "fmt ") \o ChunkOf(m, "data"), chunk_len>>]

\* read_frame_header as decode_next_frame calls it on the bytes of a header: the sync
\* code was read through the CRC readers, the STREAMINFO block said 44.1 kHz and 16 bits
ReadFrameHeaderCall ==
    /\ call.fn = "read_frame_header"
    /\ ~call.done
    /\ call' = [call EXCEPT
                   !.done = TRUE,
                   !.result = read_frame_header(
                                  call.args[1], 2,
                                  [NullInfo EXCEPT !.sample_rate = 44100,
                                                   !.bits_per_sample = 16],
                                  read_be_u16(call.args[1], 0).v, 0)]
    /\ UNCHANGED <<stream, meta, flag, pos, header, is_buffer_used, iter, samples_results, out,
                   overflow_checks>>

\* read_utf8_coded_int on a reader at the start of the bytes
ReadUtf8CodedIntCall ==
    /\ call.fn = "read_utf8_coded_int"
    /\ ~call.done
    /\ call' = [call EXCEPT !.done = TRUE,
                            !.result = read_utf8_coded_int(call.args[1], 0)]
    /\ UNCHANGED <<stream, meta, flag, pos, header, is_buffer_used, iter, samples_results, out,
                   overflow_checks>>

RiceToSignedCall ==
    /\ call.fn = "rice_to_signed"
    /\ ~call.done
    /\ call' = [call EXCEPT !.done = TRUE, !.result = rice_to_signed(call.args[1])]
    /\ UNCHANGED <<stream, meta, flag, pos, header, is_buffer_used, iter, samples_results, out,
                   overflow_checks>>

\* fixed_predict(order, buffer); args[3] is the sequence the buffer was encoded from
FixedPredictCall ==
    /\ call.fn = "fixed_predict"
    /\ ~call.done
    /\ call' = [call EXCEPT !.done = TRUE,
                            !.result = fixed_predict(call.args[1], call.args[2])]
    /\ UNCHANGED <<stream, meta, flag, pos, header, is_buffer_used, iter, samples_results, out,
                   overflow_checks>>

\* predict_lpc_low_order and predict_lpc_high_order, each on a copy of the buffer
PredictLpcCall ==
    /\ call.fn = "predict_lpc"
    /\ ~call.done
    /\ call' = [call EXCEPT
                   !.done = TRUE,
                   !.result = [low |-> predict_lpc_low_order(call.args[1], call.args[2],
                                                             call.args[3]),
                               high |-> predict_lpc_high_order(call.args[1], call.args[2],
                                                               call.args[3])]]
    /\ UNCHANGED <<stream, meta, flag, pos, header, is_buffer_used, iter, samples_results, out,
                   overflow_checks>>

\* decode_mid_side on the buffer an encoder stores for the channels args[1] and args[2]
DecodeMidSideCall ==
    /\ call.fn = "decode_mid_side"
    /\ ~call.done
    /\ call' = [call EXCEPT
                   !.done = TRUE,
                   !.result = decode_mid_side(MidSideEncode(call.args[1], call.args[2]))]
    /\ UNCHANGED <<stream, meta, flag, pos, header, is_buffer_used, iter, samples_results, out,
                   overflow_checks>>

\* narrow_to_i8, narrow_to_i16 and narrow_to_i24 on the same value
NarrowCall ==
    /\ call.fn = "narrow_to"
    /\ ~call.done
    /\ call' = [call EXCEPT !.done = TRUE,
                            !.result = [i8 |-> narrow_to_i8(call.args[1]),
                                        i16 |-> narrow_to_i16(call.args[1]),
                                        i24 |-> narrow_to_i24(call.args[1])]]
    /\ UNCHANGED <<stream, meta, flag, pos, header, is_buffer_used, iter, samples_results, out,
                   overflow_checks>>

\* <S as Sample>::from_i32(value, bits)
FromI32Call ==
    /\ call.fn = "from_i32"
    /\ ~call.done
    /\ call' = [call EXCEPT !.done = TRUE,
                            !.result = from_i32(call.args[1], call.args[2], call.args[3])]
    /\ UNCHANGED <<stream, meta, flag, pos, header, is_buffer_used, iter, samples_results, out,
                   overflow_checks>>

\* decode_residual(bitstream, block_size, &mut buffer[warm..]) on a fresh BitStream
DecodeResidualCall ==
    /\ call.fn = "decode_residual"
    /\ ~call.done
    /\ call' = [call EXCEPT
                   !.done = TRUE,
                   !.result = decode_residual(call.args[5], NewBitStream(0), call.args[3],
                                              call.args[3] - call.args[4])]
    /\ UNCHANGED <<stream, meta, flag, pos, header, is_buffer_used, iter, samples_results, out,
                   overflow_checks>>

\* decode_subframe(bitstream, bps, buffer) on a fresh BitStream, the buffer as long as
\* the samples args[4]
DecodeSubframeCall ==
    /\ call.fn = "decode_subframe"
    /\ ~call.done
    /\ call' = [call EXCEPT
                   !.done = TRUE,
                   !.result = decode_subframe(call.args[5], NewBitStream(0), call.args[2],
                                              Len(call.args[4]))]
    /\ UNCHANGED <<stream, meta, flag, pos, header, is_buffer_used, iter, samples_results, out,
                   overflow_checks>>

\* read_next_chunk on a reader at the header of a `fmt ` chunk of the declared length
\* args[2], which a `data` chunk follows
ReadNextChunkCall ==
    /\ call.fn = "read_next_chunk"
    /\ ~call.done
    /\ call' = [call EXCEPT !.done = TRUE, !.result = read_next_chunk(call.args[1], 0)]
    /\ UNCHANGED <<stream, meta, flag, pos, header, is_buffer_used, iter, samples_results, out,
                   overflow_checks>>

FnNext ==
    \/ ReadFrameHeaderCall
    \/ ReadUtf8CodedIntCall
    \/ RiceToSignedCall
    \/ FixedPredictCall
    \/ PredictLpcCall
    \/ DecodeMidSideCall
    \/ NarrowCall
    \/ FromI32Call
    \/ DecodeResidualCall
    \/ DecodeSubframeCall
    \/ ReadNextChunkCall

FnSpec == FnInit /\ [][FnNext]_vars

-----------------------------------------------------------------------------
(* A BitStream over a byte reader, its methods called in any order.  `call` *)
(* holds the bytes (args[1]) and, in result, the BitStream after the last   *)
(* method (bs), the one before it (before), the method (op), its argument   *)
(* (n) and what it returned (ok, v).  A failed read ends the run.           *)

\* the longest of the streams of every content
MaxBitBytes == 2

BitStreams ==
    SeqsOf({0, 165, 255}, 0..MaxBitBytes)
        \cup {<<0, 0, 1>>, <<8, 0, 0, 0, 0, 16>>, <<90, 0, 0, 16, 255>>,
              <<127, 255, 255, 255, 128>>, <<165, 90, 195, 60, 15, 240>>}

\* bit k of the stream, the most significant bit of the first byte being bit 1
StreamBit(s, k) == (s[((k - 1) \div 8) + 1] \div Pow2(7 - ((k - 1) % 8))) % 2

\* the bits the BitStream b has consumed: those of the bytes read, less the unread ones
BitsConsumed(b) == 8 * b.pos - b.bits_left

BitInit ==
    /\ stream = <<>>
    /\ meta = <<>>
    /\ flag = ""
    /\ pos = 0
    /\ header = NoHeader
    /\ is_buffer_used = FALSE
    /\ iter = NoIterator
    /\ samples_results = <<>>
    /\ out = <<>>
    /\ overflow_checks \in BOOLEAN
    /\ \E s \in BitStreams :
          call = [fn |-> "BitStream", args |-> <<s>>, done |-> FALSE,
                  result |-> [bs |-> NewBitStream(0), before |-> NewBitStream(0),
                              op |-> "new", n |-> 0, ok |-> TRUE, v |-> 0]]

\* the method op with the argument n returned r
BitCalled(op, n, r) ==
    /\ call.fn = "BitStream"
    /\ ~call.done
    /\ call' = [call EXCEPT !.done = ~r.ok,
                            !.result = [bs |-> r.bs, before |-> call.result.bs,
                                        op |-> op, n |-> n, ok |-> r.ok, v |-> r.v]]
    /\ UNCHANGED <<stream, meta, flag, pos, header, is_buffer_used, iter, samples_results, out,
                   overflow_checks>>

BitReadBit == BitCalled("read_bit", 1, read_bit(call.args[1], call.result.bs))

BitReadLenU8 ==
    \E n \in 0..8 : BitCalled("read_len_u8", n, read_len_u8(call.args[1], call.result.bs, n))

BitReadLenU16 ==
    \E n \in {0, 5, 8, 9, 13, 16} :
        BitCalled("read_len_u16", n, read_len_u16(call.args[1], call.result.bs, n))

\* 32 bits are read only where the first of them is 0: the values stay below 2^31
BitReadLenU32 ==
    \E n \in {0, 7, 16, 17, 24, 31, 32} :
        /\ call.fn = "BitStream"
        /\ IF n = 32 /\ 8 * Len(call.args[1]) - BitsConsumed(call.result.bs) >= 32
           THEN StreamBit(call.args[1], BitsConsumed(call.result.bs) + 1) = 0
           ELSE TRUE
        /\ BitCalled("read_len_u32", n, read_len_u32(call.args[1], call.result.bs, n))

BitReadUnary == BitCalled("read_unary", 0, read_unary(call.args[1], call.result.bs))

BitSkipLenU8 ==
    \E n \in 0..8 : BitCalled("skip_len_u8", n, skip_len_u8(call.args[1], call.result.bs, n))

BitNext ==
    \/ BitReadBit
    \/ BitReadLenU8
    \/ BitReadLenU16
    \/ BitReadLenU32
    \/ BitReadUnary
    \/ BitSkipLenU8

BitSpec == BitInit /\ [][BitNext]_vars

-----------------------------------------------------------------------------
(* io/dynamic_buf_reader.rs: DynamicBufReader over a source of args[1]      *)
(* bytes.  A byte is known by its place in the source.  `call.result` holds *)
(* the reader: inner_pos, the bytes the source has given out; base, the     *)
(* place in the source of buf[0] since the last refill; pos, end_pos and    *)
(* cur_capacity; and of the last read(): len, the length of the caller's    *)
(* buffer, ok, from and n (the bytes from + 1 .. from + n of the source     *)
(* were returned), refilled and capacity_before.  delivered counts the      *)
(* bytes returned by all the calls and reads the calls.                     *)

MAX_CAPACITY == 32768
INIT_CAPACITY == 8192

\* the most calls of read() on a reader
MaxReads == 5

\* DynamicBufReader::new
NewDynamicBufReader ==
    [inner_pos |-> 0, base |-> 0, pos |-> 0, end_pos |-> 0, cur_capacity |-> INIT_CAPACITY,
     delivered |-> 0, reads |-> 0,
     last |-> [len |-> 0, ok |-> TRUE, from |-> 0, n |-> 0, refilled |-> FALSE,
               capacity_before |-> INIT_CAPACITY]]

\* what io::Read::read of the source may return for a buffer of len bytes when `left`
\* bytes remain: an error (-1), all it can give, or fewer bytes, at least one
InnerRead(len, left) ==
    {-1, IF len < left THEN len ELSE left, ((IF len < left THEN len ELSE left) + 1) \div 2}

\* the bypass taken whenever the caller's buffer is large, buffered bytes or not
bypasses_always(r, len) == len >= MAX_CAPACITY

\* `self.pos == self.end_pos && buf.len() >= self.buf.len()`
bypasses(r, len) == r.pos = r.end_pos /\ len >= MAX_CAPACITY

\* fill_buf when the source returned k: the reader after it
fill_buf(r, k) ==
    IF r.pos >= r.end_pos
    THEN [r EXCEPT !.end_pos = k, !.pos = 0, !.base = r.inner_pos,
                   !.inner_pos = r.inner_pos + k,
                   !.cur_capacity = IF r.cur_capacity < MAX_CAPACITY
                                    THEN r.cur_capacity * 2 ELSE r.cur_capacity]
    ELSE r

\* <DynamicBufReader as io::Read>::read into a buffer of len bytes, the source
\* returning k if it is asked
DynamicBufReader_read(r, len, k) ==
    IF bypasses(r, len)
    THEN IF k < 0
         THEN [r EXCEPT !.pos = 0, !.end_pos = 0, !.reads = r.reads + 1,
                        !.last = [len |-> len, ok |-> FALSE, from |-> 0, n |-> 0,
                                  refilled |-> FALSE,
                                  capacity_before |-> r.cur_capacity]]
         ELSE [r EXCEPT !.pos = 0, !.end_pos = 0, !.inner_pos = r.inner_pos + k,
                        !.delivered = r.delivered + k, !.reads = r.reads + 1,
                        !.last = [len |-> len, ok |-> TRUE, from |-> r.inner_pos, n |-> k,
                                  refilled |-> FALSE,
                                  capacity_before |-> r.cur_capacity]]
    ELSE IF r.pos >= r.end_pos /\ k < 0
    THEN [r EXCEPT !.reads = r.reads + 1,
                   !.last = [len |-> len, ok |-> FALSE, from |-> 0, n |-> 0,
                             refilled |-> FALSE, capacity_before |-> r.cur_capacity]]
    ELSE The({
        The({
            [filled EXCEPT !.pos = IF filled.pos + nread < filled.end_pos
                                   THEN filled.pos + nread ELSE filled.end_pos,
                           !.delivered = r.delivered + nread, !.reads = r.reads + 1,
                           !.last = [len |-> len, ok |-> TRUE,
                                     from |-> filled.base + filled.pos, n |-> nread,
                                     refilled |-> r.pos >= r.end_pos,
                                     capacity_before |-> r.cur_capacity]]
            : nread \in {IF len < filled.end_pos - filled.pos THEN len
                         ELSE filled.end_pos - filled.pos}})
        : filled \in {fill_buf(r, k)}})

BufInit ==
    /\ stream = <<>>
    /\ meta = <<>>
    /\ flag = ""
    /\ pos = 0
    /\ header = NoHeader
    /\ is_buffer_used = FALSE
    /\ iter = NoIterator
    /\ samples_results = <<>>
    /\ out = <<>>
    /\ overflow_checks \in BOOLEAN
    /\ \E source_len \in {0, 3, 8192, 100000} :
          call = [fn |-> "DynamicBufReader", args |-> <<source_len>>, done |-> FALSE,
                  result |-> NewDynamicBufReader]

\* read() with a buffer of len bytes; the source is asked for the caller's buffer on the
\* bypass and for cur_capacity bytes on a refill
BufRead ==
    /\ call.fn = "DynamicBufReader"
    /\ call.result.reads < MaxReads
    /\ \E len \in {0, 1, 5000, 32768, 40000} :
          \E k \in IF bypasses(call.result, len)
                   THEN InnerRead(len, call.args[1] - call.result.inner_pos)
                   ELSE IF call.result.pos >= call.result.end_pos
                   THEN InnerRead(call.result.cur_capacity,
                                  call.args[1] - call.result.inner_pos)
                   ELSE {0} :
              call' = [call EXCEPT !.result = DynamicBufReader_read(call.result, len, k)]
    /\ UNCHANGED <<stream, meta, flag, pos, header, is_buffer_used, iter, samples_results, out,
                   overflow_checks>>

BufNext == BufRead

BufSpec == BufInit /\ [][BufNext]_vars

-----------------------------------------------------------------------------
(* Properties.  `out` is the history of the items next() returned on the    *)
(* one iterator a segment gives out, samples_results that of samples().     *)

\* the items of the history o that are errors: Some(Err(_))
ErrorItems(o) == {j \in 1..Len(o) : o[j].res \notin {"Ok", "None"}}

\* in the history o every item after an error is the end of the stream
ErrorThenNone(o) ==
    \A j \in 1..Len(o) : \A k \in (j + 1)..Len(o) :
        j \in ErrorItems(o) => o[k].res = "None"

\* C1: the first call of samples() on a segment succeeds and every later call returns
\* Unsupported, whatever the output types asked for and whatever was done with the first
\* iterator
C1_SamplesOnlyOnce ==
    \A k \in 1..Len(samples_results) :
        samples_results[k].res = IF k = 1 THEN "Ok" ELSE "Unsupported"

\* a second call, for another output type, after the first iterator was partly consumed
\* and dropped
C1_Witness ==
    /\ Len(samples_results) >= 2
    /\ samples_results[1].S # samples_results[2].S
    /\ Len(out) >= 2
    /\ out[Len(out)].res = "Ok"
    /\ iter.kind = "none"

\* C2: once next() of the FLAC iterator has yielded an error, every later call yields
\* None, so that at most one error is ever yielded
C2_FlacErrorOnce ==
    flag = "FLAC" => ErrorThenNone(out) /\ Cardinality(ErrorItems(out)) <= 1

\* C3: a failure to read a sample is yielded once by the WAV iterator, and every later call
\* of next() yields None
C3_WavErrorOnce ==
    flag = "WAV" => ErrorThenNone(out) /\ Cardinality(ErrorItems(out)) <= 1

\* the k-th little-endian i16 of the bytes `payload`
PayloadI16(payload, k) ==
    IF payload[2 * k] >= 128 THEN payload[2 * k - 1] + 256 * payload[2 * k] - 65536
    ELSE payload[2 * k - 1] + 256 * payload[2 * k]

\* C4: with total_samples = N, next() of the WAV iterator returns Some(_) on its first N
\* calls and None on every later one; for a 16-bit PCM file that holds all the samples it
\* declares, read as i16, the k-th item is the k-th little-endian i16 of the payload
C4_WavYieldsTotalSamples ==
    (flag = "WAV" /\ header.tag = "Ok") =>
        /\ \A j \in 1..Len(out) :
              (out[j].res # "None") <=> (j <= header.info.total_samples)
        /\ ( /\ meta.family = "payload"
             /\ meta.bits = 16
             /\ meta.data_len = Len(meta.payload)
             /\ samples_results # <<>>
             /\ samples_results[1].S = "i16" )
           => \A j \in 1..Len(out) :
                  j <= Len(meta.payload) \div 2 =>
                      out[j] = Item("Ok", IntSample(PayloadI16(meta.payload, j)))

\* a file of two samples, the first negative, read as i16 to its end and one call beyond
C4_Witness ==
    /\ flag = "WAV"
    /\ meta.family = "payload"
    /\ meta.payload = <<1, 255, 255, 1>>
    /\ meta.data_len = 4
    /\ samples_results # <<>>
    /\ samples_results[1].S = "i16"
    /\ Len(out) = 3
    /\ out[1].v.n = -255
    /\ out[3].res = "None"

\* the channel-major `buffer` of C channels and N samples in the order of the iterator:
\* position i * C + c holds buffer[c * N + i]
Interleaved(buffer, C, N) ==
    [j \in 1..(C * N) |-> buffer[((j - 1) % C) * N + ((j - 1) \div C) + 1]]

\* the number of frames at the start of `frames` that have no defect
RECURSIVE SoundFrames(_)
SoundFrames(frames) ==
    IF frames = <<>> \/ Head(frames).defect # "none" THEN 0
    ELSE 1 + SoundFrames(Tail(frames))

\* the samples of the frames of the file m before its first defective frame, interleaved
\* frame by frame, in stream order
SoundSamples(m) ==
    Concat([k \in 1..SoundFrames(m.frames) |->
                Interleaved(FrameSamples(k - 1, m.frames[k]), m.frames[k].n,
                            m.frames[k].block_size)])

\* C5: the iterator yields the C * N values of each block, the value at position
\* i * C + c being buffer[c * N + i], and the blocks in stream order from sample 0 of
\* channel 0 of the first frame (read as i32, which keeps the values as they are)
C5_FlacInterleavedOrder ==
    (flag = "FLAC" /\ samples_results # <<>> /\ samples_results[1].S = "i32") =>
        \A j \in 1..Len(out) :
            j <= Len(SoundSamples(meta)) =>
                out[j] = Item("Ok", IntSample(SoundSamples(meta)[j]))

\* two frames of two channels and two samples each, read into the second block
C5_Witness ==
    /\ flag = "FLAC"
    /\ Len(meta.frames) = 2
    /\ \A k \in 1..2 : meta.frames[k] = FrameOf(2, 2, 8, "verbatim", "none")
    /\ samples_results # <<>>
    /\ samples_results[1].S = "i32"
    /\ Len(out) = 7
    /\ out[7].res = "Ok"

\* C6: every sample the FLAC iterator yields belongs to a frame that decoded in full:
\* no item beyond the samples of the frames before the first defective one is a sample
C6_FlacNoSampleOfFailedFrame ==
    flag = "FLAC" =>
        \A j \in 1..Len(out) : out[j].res = "Ok" => j <= Len(SoundSamples(meta))

\* a frame whose two subframes decode and whose CRC-16 is wrong, after a sound frame: the
\* samples of the first frame were yielded, then the error
C6_Witness ==
    /\ flag = "FLAC"
    /\ Len(meta.frames) = 2
    /\ meta.frames[1].defect = "none"
    /\ meta.frames[2].defect = "crc16"
    /\ Len(out) = Len(SoundSamples(meta)) + 2
    /\ out[Len(SoundSamples(meta))].res = "Ok"
    /\ out[Len(SoundSamples(meta)) + 1].res = "ParseError"
    /\ out[Len(SoundSamples(meta)) + 2].res = "None"

\* the number of channels of a layout
LayoutChannelCount(layout) ==
    CASE layout = "Mono" -> 1
      [] layout = "Stereo" -> 2
      [] layout = "TwoPointOne" -> 3
      [] layout = "ThreePointZero" -> 3
      [] layout = "Quad" -> 4
      [] layout = "FivePointZero" -> 5
      [] layout = "FivePointOne" -> 6
      [] layout = "SixPointOne" -> 7
      [] layout = "SixPointOneBack" -> 7
      [] layout = "SevenPointOne" -> 8

\* C7: after a successful read_header the number of bits set in `channels` is the number
\* of channels of `channel_layout`
C7_ChannelsMatchLayout ==
    header.tag = "Ok" =>
        number_channels(header.info) = LayoutChannelCount(header.info.channel_layout)

\* C8: after a successful read_header bits_per_sample is in 1..32 and sample_rate is at
\* least 1, and at most 655350 for FLAC
C8_DepthAndRateInRange ==
    header.tag = "Ok" =>
        /\ header.info.bits_per_sample \in 1..32
        /\ header.info.sample_rate >= 1
        /\ flag = "FLAC" => header.info.sample_rate <= 655350

\* C9: read_header of a RIFF/WAVE stream that has a `data` chunk and no `fmt ` chunk
\* returns a ParseError, whatever the payload of the `data` chunk
C9_NoFmtIsParseError ==
    ( /\ flag = "WAV"
      /\ meta.family = "structure"
      /\ \E i \in 1..Len(meta.order) : meta.order[i] = "data"
      /\ \A i \in 1..Len(meta.order) : meta.order[i] # "fmt "
      /\ header.tag # "none" )
    => header.tag = "ParseError"

\* C10: a file whose `fmt ` chunk has the IEEE float tag is read with success only if the
\* chunk declares the length 16, or the length 18 with an extra size of 0
C10_IeeeFmtLength ==
    (flag = "WAV" /\ meta.format_tag = WAVE_FORMAT_IEEE_FLOAT /\ header.tag = "Ok") =>
        \/ meta.fmt_len = 16
        \/ meta.fmt_len = 18 /\ meta.extra = <<0, 0>>

\* C11: for an extensible `fmt ` chunk the header read ends in an error whenever the valid
\* bits per sample are no multiple of 8, exceed the container bits, or, for the PCM
\* sub-format, are none of 8, 16, 24, 32; on success bits_per_sample is the valid bits
C11_ExtValidBits ==
    ( /\ flag = "WAV"
      /\ meta.family = "ext"
      /\ header.tag # "none" )
    => /\ ( \/ from_le_bytes(SubSeq(meta.extra, 3, 4)) % 8 # 0
            \/ from_le_bytes(SubSeq(meta.extra, 3, 4)) > meta.bits
            \/ /\ SubSeq(meta.extra, 9, 24) = KSDATAFORMAT_SUBTYPE_PCM
               /\ from_le_bytes(SubSeq(meta.extra, 3, 4)) \notin {8, 16, 24, 32} )
          => header.tag \in {"ParseError", "Unsupported", "IoError"}
       /\ header.tag = "Ok"
          => header.info.bits_per_sample = from_le_bytes(SubSeq(meta.extra, 3, 4))

\* C12: FLAC read_header returns an error when a metadata block has type 127 or a
\* STREAMINFO block fails its validation, whatever blocks follow, and a ParseError when
\* the metadata holds no STREAMINFO block
C12_FlacHeaderNeedsSoundBlocks ==
    ( /\ flag = "FLAC"
      /\ meta.family = "header"
      /\ meta.order # <<>>
      /\ header.tag # "none" )
    => /\ (\E i \in 1..Len(meta.order) : meta.order[i] \in {"invalid", "short", "small"})
          => header.tag # "Ok"
       /\ (\A i \in 1..Len(meta.order) : meta.order[i] \in {"PADDING", "invalid"})
          => header.tag = "ParseError"

\* C13: read_frame_header decodes the block size by the code table: code 0 fails, 1 gives
\* 192, 2..5 give 576 << (code - 2), 6 and 7 give the deferred value + 1 for every value,
\* 8..15 give 256 << (code - 8); the result is at least 1 and nothing overflows or panics
C13_BlockSizeTable ==
    (call.fn = "read_frame_header" /\ call.done) =>
        LET code == call.args[1][3] \div 16
            deferred == from_be_bytes(SubSeq(call.args[1], 6, Len(call.args[1]) - 1))
        IN /\ call.result.tag # "panic"
           /\ code = 0 => call.result.tag # "Ok"
           /\ code # 0 =>
                 /\ call.result.tag = "Ok"
                 /\ call.result.h.block_size >= 1
                 /\ call.result.h.block_size =
                        CASE code = 1 -> 192
                          [] code \in 2..5 -> 576 * 2^(code - 2)
                          [] code \in 6..7 -> deferred + 1
                          [] OTHER -> 256 * 2^(code - 8)

\* C14: read_utf8_coded_int accepts a first byte of k leading 1 bits only for k = 0 and
\* 2 <= k <= 7 (10xxxxxx and 0xFF are rejected), reads exactly k - 1 continuation bytes,
\* each of the form 10xxxxxx or else a ParseError, and returns the payload bits of the
\* first byte followed by 6 bits of each continuation byte, a value below 2^36
C14_Utf8CodedInt ==
    (call.fn = "read_utf8_coded_int" /\ call.done) =>
        LET bytes == call.args[1]
            k == CHOOSE n \in 0..8 :
                     /\ bytes[1] >= 256 - 2^(8 - n)
                     /\ n < 8 => bytes[1] < 256 - 2^(7 - n)
            extra == IF k = 0 THEN 0 ELSE k - 1
            bad == {j \in 2..(extra + 1) : j <= Len(bytes) /\ bytes[j] \div 64 # 2}
            value[j \in 0..extra] ==
                IF j = 0 THEN (IF k >= 7 THEN 0 ELSE bytes[1] % 2^(7 - k))
                ELSE (value[j - 1] * 64) + (bytes[j + 1] % 64)
        IN /\ k \in {1, 8} => call.result.tag # "Ok"
           /\ (k \notin {1, 8} /\ bad # {}) => call.result.tag = "ParseError"
           /\ call.result.tag = "Ok" =>
                 /\ call.result.pos = extra + 1
                 /\ call.result.v = value[extra]
                 /\ call.result.v \div 2^30 < 64

\* C15: a frame is accepted exactly when its CRC-8 byte is the CRC-8 of the header bytes
\* before it and its last two bytes are the CRC-16 of every byte from the sync code to
\* the last subframe byte, the CRC-8 byte included: the samples of the frames that carry
\* these checksums are yielded, and a frame with either checksum wrong is a ParseError
C15_CrcCoversFrame ==
    ( /\ flag = "FLAC"
      /\ meta.family = "frames"
      /\ samples_results # <<>>
      /\ samples_results[1].S = "i32" )
    => /\ \A j \in 1..Len(out) : j <= Len(SoundSamples(meta)) => out[j].res = "Ok"
       /\ ( /\ Len(out) > Len(SoundSamples(meta))
            /\ SoundFrames(meta.frames) < Len(meta.frames)
            /\ meta.frames[SoundFrames(meta.frames) + 1].defect \in {"crc8", "crc16"} )
          => out[Len(SoundSamples(meta)) + 1].res = "ParseError"

\* a sound frame that does not start the stream was accepted and its samples yielded,
\* and the frame after it, whose CRC-8 byte is wrong, was refused
C15_Witness ==
    /\ flag = "FLAC"
    /\ Len(meta.frames) = 2
    /\ meta.frames[1] = FrameOf(2, MaxBlockSize, 8, "verbatim", "none")
    /\ meta.frames[2].defect = "crc8"
    /\ samples_results # <<>>
    /\ samples_results[1].S = "i32"
    /\ Len(out) = Len(SoundSamples(meta)) + 1
    /\ out[Len(out)].res = "ParseError"

\* C16: rice_to_signed undoes the zig-zag mapping: 2n goes to n and 2n + 1 to -(n + 1)
C16_RiceToSignedZigZag ==
    (call.fn = "rice_to_signed" /\ call.done) =>
        \A n \in {call.args[1] \div 2} :
            /\ call.args[1] = 2 * n => call.result = n
            /\ call.args[1] = (2 * n) + 1 => call.result = -(n + 1)

\* the odd value 3 was mapped to -2
C16_Witness ==
    /\ call.fn = "rice_to_signed"
    /\ call.done
    /\ call.args = <<3>>
    /\ call.result = -2

C18_FixedPredictWraps ==
    (call.fn = "fixed_predict" /\ call.done) =>
        LET order == call.args[1]
            b == call.result.buf
            prediction(i) ==
                CASE order = 0 -> 0
                  [] order = 1 -> b[i - 1]
                  [] order = 2 -> AddI32(ScaleI32(2, b[i - 1]), ScaleI32(-1, b[i - 2]))
                  [] order = 3 -> AddI32(ScaleI32(3, b[i - 1]),
                                         AddI32(ScaleI32(-3, b[i - 2]), b[i - 3]))
                  [] order = 4 -> AddI32(AddI32(ScaleI32(4, b[i - 1]), ScaleI32(-6, b[i - 2])),
                                         AddI32(ScaleI32(4, b[i - 3]), ScaleI32(-1, b[i - 4])))
        IN /\ call.result.tag = "Ok"
           /\ \A i \in 1..Len(b) :
                 b[i] = IF i <= order THEN call.args[2][i]
                        ELSE AddI32(call.args[2][i], prediction(i))

\* C19: for 1 <= order <= 12 and a buffer at least as long as the order,
\* predict_lpc_low_order and predict_lpc_high_order give the same buffer: the first
\* `order` samples unchanged and, after them, b[i] plus the sum of coef[k] * b[i-order+k]
\* shifted right by qlp_shift, computed from the samples already predicted
C19_LpcLowIsHigh ==
    (call.fn = "predict_lpc" /\ call.done) =>
        LET coef == call.args[1]
            order == Len(call.args[1])
            b == call.result.high
            sum(i) == LET partial[k \in 0..order] ==
                              IF k = 0 THEN 0
                              ELSE partial[k - 1] + coef[k] * b[i - order + k - 1]
                      IN partial[order]
        IN /\ call.result.low = call.result.high
           /\ Len(b) = Len(call.args[3])
           /\ \A i \in 1..Len(b) :
                 b[i] = IF i <= order THEN call.args[3][i]
                        ELSE call.args[3][i]
                                 + ((sum(i) - (sum(i) % 2^(call.args[2]))) \div 2^(call.args[2]))

\* a buffer longer than twelve samples was predicted with fewer than twelve coefficients,
\* with a sum that the shift rounded down to a negative value
C19_Witness ==
    /\ call.fn = "predict_lpc"
    /\ call.done
    /\ Len(call.args[1]) = 5
    /\ call.args[2] = 3
    /\ Len(call.args[3]) = 13
    /\ call.result.low # call.args[3]
    /\ \E i \in 6..13 : call.result.low[i] < call.args[3][i]

\* C20 as the specification states it: the eight warm-up samples followed by eight zero
\* residuals give the sixteen samples 3590, ..., 476, 187, -255, ..., -1717
C20_LpcExampleZeroResidual ==
    ( /\ call.fn = "predict_lpc"
      /\ call.done
      /\ call.args = <<<<-77, 164, -219, 146, 38, 161, -895, 1151>>, 9,
                       <<3590, 3465, 2979, 2237, 1692, 1411, 900, 476,
                         0, 0, 0, 0, 0, 0, 0, 0>>>> )
    => call.result.low = <<3590, 3465, 2979, 2237, 1692, 1411, 900, 476,
                           187, -255, -688, -1146, -1455, -1428, -1567, -1717>>

\* C20, amended: the eight warm-up samples followed by the residuals 188, -189, 49, 3, 37,
\* 150, -353, -49 give the sixteen samples 3590, ..., 476, 187, -255, ..., -1717
C20_LpcExample ==
    ( /\ call.fn = "predict_lpc"
      /\ call.done
      /\ call.args = <<<<-77, 164, -219, 146, 38, 161, -895, 1151>>, 9,
                       <<3590, 3465, 2979, 2237, 1692, 1411, 900, 476,
                         188, -189, 49, 3, 37, 150, -353, -49>>>> )
    => call.result.low = <<3590, 3465, 2979, 2237, 1692, 1411, 900, 476,
                           187, -255, -688, -1146, -1455, -1428, -1567, -1717>>

\* the call of the example was made
C20_Witness ==
    /\ call.fn = "predict_lpc"
    /\ call.done
    /\ Len(call.args[3]) = 16
    /\ call.args[3][9] = 188
    /\ call.result.low[16] = -1717

\* C21: decode_mid_side applied to mid = (L + R) >> 1 and side = L - R gives back L in
\* channel 0 and R in channel 1, for all 32-bit samples L and R
C21_MidSideRoundTrip ==
    (call.fn = "decode_mid_side" /\ call.done) =>
        call.result = call.args[1] \o call.args[2]

\* C22: narrow_to_i8, narrow_to_i16 and narrow_to_i24 return Ok(x), the value unchanged,
\* exactly when x is in the signed range of the width, and a ParseError "Too Wide..."
\* for every other value
C22_NarrowChecksRange ==
    (call.fn = "narrow_to" /\ call.done) =>
        LET x == call.args[1]
            agrees(r, lo, hi, name) ==
                IF lo <= x /\ x <= hi
                THEN r.tag = "Ok" /\ r.v = x
                ELSE r.tag = "ParseError" /\ r.msg = "Too Wide to cast to " \o name
        IN /\ agrees(call.result.i8, -128, 127, "i8")
           /\ agrees(call.result.i16, -32768, 32767, "i16")
           /\ agrees(call.result.i24, -8388608, 8388607, "i24")

\* the lowest value of i16 was narrowed: too wide for i8, accepted for i16 and i24
C22_Witness ==
    /\ call.fn = "narrow_to"
    /\ call.done
    /\ call.args[1] = -32768
    /\ call.result.i8.tag = "ParseError"
    /\ call.result.i16 = [tag |-> "Ok", v |-> -32768, msg |-> ""]
    /\ call.result.i24.tag = "Ok"

\* C23: for every src_bits in 1..32, from_i32(value, src_bits) of u8, i16 and i32 returns
\* the value when src_bits is at most the width of the target and Unsupported otherwise,
\* and that of f32 and f64 returns value / 2^(src_bits - 1)
C23_FromI32 ==
    (call.fn = "from_i32" /\ call.done) =>
        LET S == call.args[1]
            value == call.args[2]
            bits == call.args[3]
            width == CASE S = "u8" -> 8 [] S = "i16" -> 16 [] OTHER -> 32
            divisor == CASE bits = 16 -> "2^15"
                         [] bits = 24 -> "2^23"
                         [] bits = 32 -> "2^31"
                         [] OTHER -> "2^(bits-1)"
        IN IF S \in {"u8", "i16", "i32"}
           THEN IF bits <= width
                THEN call.result.res = "Ok" /\ call.result.v = IntSample(value)
                ELSE call.result.res = "Unsupported"
           ELSE call.result.res = "Ok" /\ call.result.v = Scaled(value, divisor)

RECURSIVE BitsValue(_, _, _)
\* the n bits of the stream after its first `from` bits, as an unsigned number
BitsValue(s, from, n) ==
    IF n = 0 THEN 0 ELSE 2 * BitsValue(s, from, n - 1) + StreamBit(s, from + n)

\* C24: after successful calls of read_bit, read_len_u8, read_len_u16, read_len_u32,
\* read_unary and skip_len_u8, bits_left is in 0..7, the unread bits are the most
\* significant bits of data, the other bits of data are zero, and is_aligned() holds
\* exactly when bits_left is 0
C24_BitStreamInvariant ==
    (call.fn = "BitStream" /\ call.result.ok) =>
        LET b == call.result.bs
        IN /\ b.bits_left \in 0..7
           /\ b.data \in 0..255
           /\ b.data % Pow2(8 - b.bits_left) = 0
           /\ b.pos <= Len(call.args[1])
           /\ b.data \div Pow2(8 - b.bits_left)
                  = BitsValue(call.args[1], BitsConsumed(b), b.bits_left)
           /\ is_aligned(b) <=> b.bits_left = 0

\* a skip that took a fresh byte left unread bits that are not all zero
C24_Witness ==
    /\ call.fn = "BitStream"
    /\ call.result.ok
    /\ call.result.op = "skip_len_u8"
    /\ call.result.bs.pos = call.result.before.pos + 1
    /\ call.result.bs.bits_left = 5
    /\ call.result.bs.data = 40

\* C25: the bits consumed are those of the stream, most significant first, none skipped
\* and none twice: read_bit returns the next bit, read_len_u8/u16/u32(n) the next n bits
\* as a number, reading at most one more byte per 8 bits asked, read_unary the number
\* of 0 bits before the next 1 bit, which it consumes, and skip_len_u8(n) consumes n bits
C25_BitsInOrder ==
    (call.fn = "BitStream" /\ call.result.ok /\ call.result.op # "new") =>
        LET s == call.args[1]
            r == call.result
            from == BitsConsumed(r.before)
            to == BitsConsumed(r.bs)
        IN CASE r.op = "read_bit" ->
                    to = from + 1 /\ r.v = (StreamBit(s, to) = 1)
             [] r.op \in {"read_len_u8", "read_len_u16", "read_len_u32"} ->
                    /\ to = from + r.n
                    /\ r.v = BitsValue(s, from, r.n)
                    /\ r.bs.pos - r.before.pos <= (r.n + 7) \div 8
             [] r.op = "read_unary" ->
                    /\ to = from + r.v + 1
                    /\ \A k \in from + 1 .. from + r.v : StreamBit(s, k) = 0
                    /\ StreamBit(s, to) = 1
             [] r.op = "skip_len_u8" -> to = from + r.n

\* read_unary counted a run of zeros over two whole 0x00 bytes from within a byte
C25_Witness ==
    /\ call.fn = "BitStream"
    /\ call.result.ok
    /\ call.result.op = "read_unary"
    /\ call.result.before.bits_left \in 1..7
    /\ call.result.bs.pos = call.result.before.pos + 3
    /\ call.result.v > 16

\* C26: decode_residual returns Unsupported for the coding methods 2 and 3, a ParseError
\* when block_size is no multiple of 2^p or when the first partition, of length
\* (block_size >> p) - warm-up, would not have positive length, and otherwise decodes
\* exactly 2^p partitions
C26_ResidualPartitions ==
    (call.fn = "decode_residual" /\ call.done) =>
        LET method == call.args[1]
            p == call.args[2]
            block_size == call.args[3]
            warm == call.args[4]
        IN IF method >= 2 THEN call.result.tag = "Unsupported"
           ELSE IF block_size % Pow2(p) # 0 \/ (block_size \div Pow2(p)) - warm <= 0
           THEN call.result.tag = "ParseError"
           ELSE /\ call.result.tag = "Ok"
                /\ Len(call.result.buf) = block_size - warm
                /\ BitsConsumed(call.result.bs)
                       = 6 + Pow2(p) * (IF method = 1 THEN 5 ELSE 4) + (block_size - warm)

\* C27: for a FLAC stream that ends inside a frame, after the first byte of the frame and
\* before the last byte of its CRC-16, the iterator yields the samples of the complete
\* frames before it, then exactly one error, then None on every later call: the
\* truncation is never reported as a clean end of the stream
C27_TruncatedFrameIsAnError ==
    ( /\ flag = "FLAC"
      /\ meta.frames # <<>>
      /\ meta.frames[Len(meta.frames)].defect \in {"truncated", "sync"}
      /\ SoundFrames(meta.frames) = Len(meta.frames) - 1
      /\ samples_results # <<>>
      /\ samples_results[1].S = "i32" )
    => \A j \in 1..Len(out) :
          CASE j <= Len(SoundSamples(meta)) ->
                   out[j] = Item("Ok", IntSample(SoundSamples(meta)[j]))
            [] j = Len(SoundSamples(meta)) + 1 -> out[j].res \notin {"Ok", "None"}
            [] OTHER -> out[j].res = "None"

\* C28: decode_subframe decodes a subframe body at a depth bps - wasted of at least 1: a
\* count of wasted bits (1 + the unary value) greater than or equal to bps is rejected
\* with a ParseError, and otherwise every decoded sample is shifted left by `wasted` bits
C28_WastedBitsBelowDepth ==
    (call.fn = "decode_subframe" /\ call.done) =>
        LET bps == call.args[2]
            wasted == call.args[3]
            values == call.args[4]
        IN IF wasted >= bps THEN call.result.tag = "ParseError"
           ELSE /\ call.result.tag = "Ok"
                /\ call.result.buf = [i \in 1..Len(values) |-> values[i] * Pow2(wasted)]

\* C29: when read_fmt_chunk succeeds for a `fmt ` chunk of declared length L, of any
\* dialect, it has consumed exactly the L bytes of the chunk: the reader is at the header
\* of the next chunk
C29_FmtChunkConsumed ==
    (call.fn = "read_next_chunk" /\ call.done /\ call.result.tag = "Fmt") =>
        /\ call.result.pos = 8 + call.args[2]
        /\ SubSeq(call.args[1], call.result.pos + 1, call.result.pos + 4) = TAG_data

\* C30: DynamicBufReader is transparent: the bytes the calls of read() return, put end to
\* end, are the bytes of the source from its start, in order, none lost and none twice;
\* and in every state pos <= end_pos <= cur_capacity, cur_capacity is 8 KiB, 16 KiB or
\* 32 KiB, and it doubles on each refill until it is 32 KiB
C30_DynamicBufReaderTransparent ==
    call.fn = "DynamicBufReader" =>
        LET r == call.result
        IN /\ r.last.ok => /\ r.last.from = r.delivered - r.last.n
                           /\ r.last.n <= r.last.len
           /\ r.delivered <= call.args[1]
           /\ r.delivered + (r.end_pos - r.pos) = r.inner_pos
           /\ r.pos <= r.end_pos
           /\ r.end_pos <= r.cur_capacity
           /\ r.cur_capacity \in {8192, 16384, 32768}
           /\ r.cur_capacity = IF r.last.refilled /\ r.last.capacity_before < 32768
                               THEN 2 * r.last.capacity_before
                               ELSE r.last.capacity_before

\* a large read took the bypass after two refills had brought the capacity to 32 KiB and
\* the buffered bytes had been returned
C30_Witness ==
    /\ call.fn = "DynamicBufReader"
    /\ call.result.cur_capacity = 32768
    /\ call.result.last.ok
    /\ call.result.last.len = 40000
    /\ call.result.last.n = 40000
    /\ ~call.result.last.refilled
    /\ call.result.last.from > 8192

====
